---- MODULE Spec2Model ----
(***************************************************************************)
(* Model of the PixelmatchHelper of codeceptjs-pixelmatchhelper            *)
(* (src/index.js; src/index.ts holds the same logic).                      *)
(*                                                                         *)
(* One helper instance is constructed from its configuration and runs its  *)
(* calls one after the other: getVisualDifferences, checkVisualDifferences *)
(* and takeScreenshot, against a file system made of the expected, actual  *)
(* and diff folders.  An action is the code between two awaits.            *)
(*                                                                         *)
(* Representation.                                                         *)
(*  - A string is a sequence of one-character strings.                     *)
(*  - A pixel is [c, a]: c the colour (all of R, G, B), a the alpha        *)
(*    channel, both 0 or 1.  A raster is [width, height, data], data the   *)
(*    row-major sequence of pixels (k = x + width*y + 1).                   *)
(*  - difference and tolerance are counted in units of 0.0001 percent;     *)
(*    a difference is [nan, e4], nan for the NaN that 0/0 gives.  The      *)
(*    pixelmatch threshold is counted in units of 0.001.                   *)
(*  - pixelmatch is the library the helper calls: two pixels differ when   *)
(*    the colour distance of their colours blended over white exceeds the  *)
(*    threshold (anti-alias detection is left out: the rasters have no     *)
(*    anti-aliased edges).                                                 *)
(*  - The arguments of a call and the configuration are JavaScript values  *)
(*    (see below), sanitized as the code sanitizes them.                   *)
(***************************************************************************)
EXTENDS Integers, Sequences, FiniteSets, TLC

VARIABLES
    config,           \* history: the configuration the helper was built from
    globalDir,        \* [diff |-> whether a diff folder is configured,
                      \*  expected |-> path of the expected folder]
    globalTolerance,  \* construction-time default tolerance
    globalThreshold,  \* construction-time default pixelmatch threshold
    globalCaptureActual,    \* construction-time default of captureActual
    globalCaptureExpected,  \* construction-time default of captureExpected
    expectedFiles,    \* the expected folder: file name -> raster
    actualFiles,      \* the actual folder: file name -> raster
    diffFiles,        \* the diff folder: file name -> serialized diff raster
    pc,               \* position of the running call
    kind,             \* "get", "check" or "shot": the entry point called
    call,             \* history: the arguments of the running call
    callsMade,        \* number of calls made so far
    imageName,        \* this.imageName
    options,          \* this.options
    result,           \* this.result: the content of the object it refers to
    resultId,         \* identity of the object this.result refers to
    handed,           \* history: the result objects handed to the callers,
                      \* [id, asReturned, now]
    loc,              \* locals of getVisualDifferences
    err,              \* the error getVisualDifferences threw, "" if none
    returned,         \* whether getVisualDifferences returned its result
    promise,          \* the promise of checkVisualDifferences
    settleCalls,      \* calls of resolve/reject made by checkVisualDifferences
    diffWrites,       \* names of the diff files written by this call, in order
    expectedAtCall,   \* history: the expected folder when the call was made
    deleted,          \* history: the last _deleteFile call,
                      \* [which, existed, threw]
    maskedPng,        \* the raster _applyBounds is masking
    maskCleared,      \* its running total of cleared pixels
    maskRects,        \* the _clearRect calls it still has to make
    maskCalls,        \* history: the _clearRect calls made,
                      \* [before, rect, count]
    maskPc,           \* position of the masking on its own
    running           \* the calls that overlap on one helper: for each its
                      \* position, arguments and locals

\* What the constructor sets and no call changes.
constructed == <<config, globalDir, globalTolerance, globalThreshold,
                 globalCaptureActual, globalCaptureExpected>>

\* The state of a masking that runs on its own.
masking == <<maskedPng, maskCleared, maskRects, maskCalls, maskPc>>

\* The state of the helper and its folders.
helper == <<constructed, expectedFiles, actualFiles, diffFiles, pc, kind,
            call, callsMade, imageName, options, result, resultId, handed,
            loc, err, returned, promise, settleCalls, diffWrites,
            expectedAtCall, deleted>>

vars == <<masking, helper, running>>

----------------------------------------------------------------------------
(* Bounds of the model. *)

\* Width of the actual raster.  A coordinate or extent of a bounding box or
\* ignore region is at most W horizontally and H vertically, so a box can
\* reach beyond the raster.
W == 3
\* Height of the actual raster.
H == 2
\* Number of calls made one after the other on a helper.
MaxCalls == 2

\* The _clearRect calls a caller of its own makes.
MaxClears == 2

----------------------------------------------------------------------------
(* Small helpers. *)

Min2(a, b) == IF a < b THEN a ELSE b
Max2(a, b) == IF a > b THEN a ELSE b

SetMin(S) == CHOOSE x \in S : \A y \in S : x <= y
SetMax(S) == CHOOSE x \in S : \A y \in S : x >= y

\* fs.*: the files of a folder are a function from names to contents.
FileExists(folder, fn) == fn \in DOMAIN folder

\* fs.writeFileSync / fs.renameSync onto fn.
WriteFile(folder, fn, content) ==
    [x \in (DOMAIN folder) \cup {fn} |-> IF x = fn THEN content ELSE folder[x]]

----------------------------------------------------------------------------
(* Strings. *)

PNG_EXT == <<".", "p", "n", "g">>

\* '.png' === s.substr(-4), and /\.png$/
EndsWithPng(s) ==
    Len(s) >= 4 /\ SubSeq(s, Len(s) - 3, Len(s)) = PNG_EXT

\* image.replace(/(~.+)?\.png$/, '')
StripVariationAndExt(image) ==
    IF ~EndsWithPng(image) THEN image
    ELSE LET base == SubSeq(image, 1, Len(image) - 4)
             tildes == {p \in 1..(Len(base) - 1) : base[p] = "~"}
         IN  IF tildes = {} THEN base
             ELSE SubSeq(base, 1, SetMin(tildes) - 1)

\* suffix.toString().replace(/(^\.+|\.+$)/g, '')
RECURSIVE StripLeadingDots(_)
StripLeadingDots(s) ==
    IF s # <<>> /\ Head(s) = "." THEN StripLeadingDots(Tail(s)) ELSE s

RECURSIVE StripTrailingDots(_)
StripTrailingDots(s) ==
    IF s # <<>> /\ s[Len(s)] = "."
    THEN StripTrailingDots(SubSeq(s, 1, Len(s) - 1))
    ELSE s

StripDots(s) == StripTrailingDots(StripLeadingDots(s))

\* Number.prototype.toString for the loop index (one digit).
DigitChars == <<"1", "2", "3", "4", "5", "6", "7", "8", "9">>
NumToString(i) == IF i = 0 THEN <<"0">> ELSE <<DigitChars[i]>>

\* The suffix argument of _getFileName('diff', i): the number i is falsy
\* when 0 and gives i.toString() otherwise.
IndexSuffix(i) == IF i = 0 THEN <<>> ELSE NumToString(i)

\* Index of the last path separator of s, 0 if none.
LastSep(s) ==
    LET seps == {p \in 1..Len(s) : s[p] = "/"}
    IN  IF seps = {} THEN 0 ELSE SetMax(seps)

----------------------------------------------------------------------------
(* JavaScript values, as far as the options of a call need them. *)

Undefined == [t |-> "undefined"]
Null == [t |-> "null"]
Bool(b) == [t |-> "boolean", b |-> b]
\* A number; n is an integer or NaN.
Num(n) == [t |-> "number", n |-> n]
Str(s) == [t |-> "string", s |-> s]
\* An object; f maps the names of its own properties to their values.
Obj(f) == [t |-> "object", f |-> f]

\* item.name: undefined when the object has no such property.
Prop(o, name) == IF name \in DOMAIN o.f THEN o.f[name] ELSE Undefined

\* NaN, kept apart from every number of the model by lying below them all.
\* Every operation of the code that meets it is spelled out below.
NaN == 0 - 1000000000

\* Math.max(a, b) and Math.min(a, b): NaN when an argument is NaN.
MathMax(a, b) == IF a = NaN \/ b = NaN THEN NaN ELSE Max2(a, b)
MathMin(a, b) == IF a = NaN \/ b = NaN THEN NaN ELSE Min2(a, b)

\* a + b on numbers.
Plus(a, b) == IF a = NaN \/ b = NaN THEN NaN ELSE a + b

\* a < b on numbers: false when an operand is NaN.
LessThan(a, b) == a # NaN /\ b # NaN /\ a < b

IsDigit(ch) == ch = "0" \/ \E d \in 1..9 : DigitChars[d] = ch
DigitValue(ch) == IF ch = "0" THEN 0 ELSE CHOOSE d \in 1..9 : DigitChars[d] = ch

\* The longest run of digits at the start of s.
RECURSIVE LeadingDigits(_)
LeadingDigits(s) ==
    IF s # <<>> /\ IsDigit(Head(s))
    THEN <<Head(s)>> \o LeadingDigits(Tail(s))
    ELSE <<>>

\* The value of a run of digits.
RECURSIVE DigitsValue(_)
DigitsValue(ds) ==
    IF ds = <<>> THEN 0
    ELSE 10 * DigitsValue(SubSeq(ds, 1, Len(ds) - 1)) + DigitValue(ds[Len(ds)])

\* The value of the digits ds after a decimal point, in units of 1/unit
\* (unit a power of ten); digits beyond the unit are dropped.
RECURSIVE FractionValue(_, _)
FractionValue(ds, unit) ==
    IF ds = <<>> \/ unit = 1 THEN 0
    ELSE DigitValue(Head(ds)) * (unit \div 10)
         + FractionValue(Tail(ds), unit \div 10)

\* parseInt(v): a number is itself (the model has whole numbers only); a
\* string gives its leading, optionally signed, run of digits; NaN otherwise.
parseInt(v) ==
    IF v.t = "number" THEN v.n
    ELSE IF v.t = "string"
    THEN LET neg == v.s # <<>> /\ Head(v.s) = "-"
             body == IF neg THEN Tail(v.s) ELSE v.s
             ds == LeadingDigits(body)
         IN  IF ds = <<>> THEN NaN
             ELSE IF neg THEN 0 - DigitsValue(ds) ELSE DigitsValue(ds)
    ELSE NaN

\* parseFloat(v), in units of 1/unit.  A number is held in these units
\* already; a string gives its leading, optionally signed, decimal number.
parseFloat(v, unit) ==
    IF v.t = "number" THEN v.n
    ELSE IF v.t = "string"
    THEN LET neg == v.s # <<>> /\ Head(v.s) = "-"
             body == IF neg THEN Tail(v.s) ELSE v.s
             ds == LeadingDigits(body)
             rest == SubSeq(body, Len(ds) + 1, Len(body))
             fs == IF rest # <<>> /\ Head(rest) = "."
                   THEN LeadingDigits(Tail(rest)) ELSE <<>>
             abs == DigitsValue(ds) * unit + FractionValue(fs, unit)
         IN  IF ds = <<>> /\ fs = <<>> THEN NaN
             ELSE IF neg THEN 0 - abs ELSE abs
    ELSE NaN

\* Whether a value is truthy.
Truthy(v) ==
    CASE v.t = "undefined" -> FALSE
      [] v.t = "null" -> FALSE
      [] v.t = "boolean" -> v.b
      [] v.t = "number" -> v.n # 0 /\ v.n # NaN
      [] v.t = "string" -> v.s # <<>>
      [] OTHER -> TRUE

UpperCase == <<"A", "B", "C", "D", "E", "F", "G", "H", "I", "J", "K", "L", "M",
               "N", "O", "P", "Q", "R", "S", "T", "U", "V", "W", "X", "Y", "Z">>
LowerCase == <<"a", "b", "c", "d", "e", "f", "g", "h", "i", "j", "k", "l", "m",
               "n", "o", "p", "q", "r", "s", "t", "u", "v", "w", "x", "y", "z">>

\* String.prototype.toLowerCase
toLowerCase(s) ==
    [p \in 1..Len(s) |->
        IF \E u \in 1..26 : UpperCase[u] = s[p]
        THEN LowerCase[CHOOSE u \in 1..26 : UpperCase[u] = s[p]]
        ELSE s[p]]

\* ['1', 'on', 'y', 'yes', 'true', 'always']
TrueTerms ==
    {<<"1">>, <<"o", "n">>, <<"y">>, <<"y", "e", "s">>,
     <<"t", "r", "u", "e">>, <<"a", "l", "w", "a", "y", "s">>}

\* _toBool(value, validTerms) of src/index.js.  validTerms is the sequence
\* of the terms, empty when the argument is left out.  A non-empty string is
\* lower-cased and looked up in the list of true terms before validTerms is
\* consulted.
_toBool(value, validTerms) ==
    IF value.t = "boolean" THEN value
    ELSE IF value.t = "string" /\ value.s # <<>>
    THEN Bool(toLowerCase(value.s) \in TrueTerms)
    ELSE IF \E n \in 1..Len(validTerms) : validTerms[n] = value
    THEN value
    ELSE Bool(Truthy(value))

----------------------------------------------------------------------------
(* File names. *)

\* this.globalDiffPrefix, 'Diff_' unless configured.
globalDiffPrefix == <<"D", "i", "f", "f", "_">>

\* _getFileName(which, suffix): the name of an image inside its folder.
\* suffix is a string, empty when the code's suffix is falsy.
_getFileName(which, suffix) ==
    LET chosen == IF which = "expected" /\ options.compareWith # <<>>
                  THEN options.compareWith
                  ELSE imageName
        named == IF EndsWithPng(chosen) THEN chosen ELSE chosen \o PNG_EXT
        prefixed == IF which = "diff"
                    THEN SubSeq(named, 1, LastSep(named)) \o globalDiffPrefix
                         \o SubSeq(named, LastSep(named) + 1, Len(named))
                    ELSE named
    IN  IF suffix # <<>>
        THEN SubSeq(prefixed, 1, Len(prefixed) - 4)
             \o <<".">> \o StripDots(suffix) \o PNG_EXT
        ELSE prefixed

\* The regular expression of _getExpectedImagePaths,
\*   '^' + file.replace('.png', '(:?~.+)?\\.png') + '$',
\* applied to a directory entry fn.  file ends in '.png'; a '.' of its stem
\* is a regular-expression dot and matches any character.
StemMatches(stem, s) ==
    /\ Len(s) = Len(stem)
    /\ \A p \in 1..Len(stem) : stem[p] = "." \/ stem[p] = s[p]

MiddleMatches(m) ==
    \/ m = <<>>
    \/ Len(m) >= 2 /\ m[1] = "~"
    \/ Len(m) >= 3 /\ m[1] = ":" /\ m[2] = "~"

\* A listing that takes every png file of the folder for a base image: what
\* C7 tells apart from MatchesExpected.
MatchesAnyPng(file, fn) == EndsWithPng(fn)

MatchesExpected(file, fn) ==
    LET stem == SubSeq(file, 1, Len(file) - 4)
    IN  /\ EndsWithPng(fn)
        /\ Len(fn) >= Len(file)
        /\ StemMatches(stem, SubSeq(fn, 1, Len(stem)))
        /\ MiddleMatches(SubSeq(fn, Len(stem) + 1, Len(fn) - 4))

\* this.globalDir.expected, with its trailing separator.
dirExpected == globalDir.expected

\* path.dirname of a file of the expected folder.
dirnameExpected == SubSeq(dirExpected, 1, Len(dirExpected) - 1)

\* fs.readdirSync(dir): the entries of the expected folder, in directory
\* order.
ExpectedListing ==
    << <<"s">> \o PNG_EXT,
       <<"s", "~", "a">> \o PNG_EXT,
       <<"s", "~", "b">> \o PNG_EXT,
       <<"s", "~", "c">> \o PNG_EXT,
       <<"t">> \o PNG_EXT >>

ExpectedNames == {ExpectedListing[n] : n \in 1..Len(ExpectedListing)}

\* _getExpectedImagePaths(): the absolute paths of the existing base images.
RECURSIVE CollectPaths(_, _)
CollectPaths(file, n) ==
    IF n > Len(ExpectedListing) THEN <<>>
    ELSE LET fn == ExpectedListing[n]
         IN  (IF FileExists(expectedFiles, fn) /\ MatchesExpected(file, fn)
              THEN << dirnameExpected \o <<"/">> \o fn >>
              ELSE <<>>)
             \o CollectPaths(file, n + 1)

_getExpectedImagePaths == CollectPaths(_getFileName("expected", <<>>), 1)

\* path.basename of an absolute path of the expected folder.
Basename(p) == SubSeq(p, LastSep(p) + 1, Len(p))

\* The variation label of a base image path:
\*   -1 !== imgPath.indexOf('~') ? imgPath.replace(/\.png$|^.*~/g, '') : ''
VariationOf(imgPath) ==
    LET tildes == {p \in 1..Len(imgPath) : imgPath[p] = "~"}
    IN  IF tildes = {} THEN <<>>
        ELSE LET rest == SubSeq(imgPath, SetMax(tildes) + 1, Len(imgPath))
             IN  IF EndsWithPng(rest)
                 THEN SubSeq(rest, 1, Len(rest) - 4)
                 ELSE rest

----------------------------------------------------------------------------
(* Rasters. *)

\* The pixel png.data.fill(0, k, k + 4) leaves.
ZeroPixel == [c |-> 0, a |-> 0]

Raster(w, h, data) == [width |-> w, height |-> h, data |-> data]

\* Position of pixel (x, y) in the data of png: k = 4 * (x + png.width * y).
PixelIndex(png, x, y) == x + png.width * y + 1

\* A clearing that counts every pixel of the rectangle, the transparent
\* ones too: what C21 tells apart from _clearRect.
_clearRectCountingAll(png, px0, py0, px1, py1) ==
    LET cx0 == MathMin(png.width, MathMax(0, px0))
        cx1 == MathMin(png.width, MathMax(0, px1))
        cy0 == MathMin(png.height, MathMax(0, py0))
        cy1 == MathMin(png.height, MathMax(0, py1))
        inside == {PixelIndex(png, x, y) :
                      x \in Min2(cx0, cx1)..(Max2(cx0, cx1) - 1),
                      y \in Min2(cy0, cy1)..(Max2(cy0, cy1) - 1)}
    IN  [png |-> [png EXCEPT !.data =
                     [k \in DOMAIN png.data |->
                         IF k \in inside THEN ZeroPixel ELSE png.data[k]]],
         count |-> Cardinality(inside)]

\* A clearing that does not put reversed corners in order: what C22 tells
\* apart from _clearRect.
_clearRectWithoutSwap(png, px0, py0, px1, py1) ==
    LET cx0 == MathMin(png.width, MathMax(0, px0))
        cx1 == MathMin(png.width, MathMax(0, px1))
        cy0 == MathMin(png.height, MathMax(0, py0))
        cy1 == MathMin(png.height, MathMax(0, py1))
        inside == {PixelIndex(png, x, y) :
                      x \in cx0..(cx1 - 1), y \in cy0..(cy1 - 1)}
    IN  [png |-> [png EXCEPT !.data =
                     [k \in DOMAIN png.data |->
                         IF k \in inside THEN ZeroPixel ELSE png.data[k]]],
         count |-> Cardinality({k \in inside : png.data[k].a > 0})]

\* A clearing that zeroes the colour of a pixel and leaves its alpha: what
\* C23 tells apart from _clearRect.
_clearRectKeepingAlpha(png, px0, py0, px1, py1) ==
    LET cx0 == MathMin(png.width, MathMax(0, px0))
        cx1 == MathMin(png.width, MathMax(0, px1))
        cy0 == MathMin(png.height, MathMax(0, py0))
        cy1 == MathMin(png.height, MathMax(0, py1))
        inside == {PixelIndex(png, x, y) :
                      x \in Min2(cx0, cx1)..(Max2(cx0, cx1) - 1),
                      y \in Min2(cy0, cy1)..(Max2(cy0, cy1) - 1)}
    IN  [png |-> [png EXCEPT !.data =
                     [k \in DOMAIN png.data |->
                         IF k \in inside
                         THEN [c |-> 0, a |-> png.data[k].a]
                         ELSE png.data[k]]],
         count |-> Cardinality({k \in inside : png.data[k].a > 0})]

\* A NaN coordinate fails every comparison of the two loops, which then
\* clear nothing.
\* _clearRect(png, x0, y0, x1, y1): [png |-> the cleared raster,
\* count |-> the number of cleared pixels that had alpha > 0].
_clearRect(png, px0, py0, px1, py1) ==
    LET cx0 == MathMin(png.width, MathMax(0, px0))
        cx1 == MathMin(png.width, MathMax(0, px1))
        cy0 == MathMin(png.height, MathMax(0, py0))
        cy1 == MathMin(png.height, MathMax(0, py1))
        x0 == Min2(cx0, cx1)
        x1 == Max2(cx0, cx1)
        y0 == Min2(cy0, cy1)
        y1 == Max2(cy0, cy1)
        inside == {PixelIndex(png, x, y) : x \in x0..(x1 - 1), y \in y0..(y1 - 1)}
    IN  IF cx0 = cx1 \/ cy0 = cy1 \/ NaN \in {cx0, cx1, cy0, cy1}
        THEN [png |-> png, count |-> 0]
        ELSE [png |-> [png EXCEPT !.data =
                          [k \in DOMAIN png.data |->
                              IF k \in inside THEN ZeroPixel ELSE png.data[k]]],
              count |-> Cardinality({k \in inside : png.data[k].a > 0})]

\* const useBounds = left || top || width || height
useBounds(bounds) ==
    \/ Truthy(Num(bounds.left)) \/ Truthy(Num(bounds.top))
    \/ Truthy(Num(bounds.width)) \/ Truthy(Num(bounds.height))

\* A masking that forgets the strip to the right of the bounding box: what
\* C1 tells apart from BoxRects.
BoxRectsWithoutRightStrip(png, bounds) ==
    << <<0, 0, bounds.left, png.height>>,
       <<bounds.left, 0, png.width, bounds.top>>,
       <<bounds.left, bounds.top + bounds.height, png.width, png.height>> >>

\* A masking whose strip above the box starts at the left edge of the
\* raster and so overlaps the strip to the left of the box: what C24 tells
\* apart from BoxRects.
BoxRectsOverlapping(png, bounds) ==
    << <<0, 0, bounds.left, png.height>>,
       <<0, 0, png.width, bounds.top>>,
       <<bounds.left, bounds.top + bounds.height, png.width, png.height>>,
       <<bounds.left + bounds.width, bounds.top, png.width,
         bounds.top + bounds.height>> >>

\* The arguments <<x0, y0, x1, y1>> of the four _clearRect calls that clear
\* the strips around the bounding box, in the order of the code.
BoxRects(png, bounds) ==
    LET x0 == 0
        x1 == bounds.left
        x2 == Plus(bounds.left, bounds.width)
        x3 == png.width
        y0 == 0
        y1 == bounds.top
        y2 == Plus(bounds.top, bounds.height)
        y3 == png.height
    IN  << <<x0, y0, x1, y3>>,
           <<x1, y0, x3, y1>>,
           <<x1, y2, x3, y3>>,
           <<x2, y1, x3, y2>> >>

\* The arguments of the _clearRect calls of the loop over opts.ignore.
IgnoreRects(ignore) ==
    [i \in 1..Len(ignore) |->
        <<ignore[i].left, ignore[i].top,
          Plus(ignore[i].left, ignore[i].width),
          Plus(ignore[i].top, ignore[i].height)>>]

\* cleared += this._clearRect(png, ...) for each of rects in turn.
RECURSIVE ClearRects(_, _, _)
ClearRects(png, cleared, rects) ==
    IF rects = <<>> THEN [png |-> png, cleared |-> cleared]
    ELSE LET r == _clearRect(png, rects[1][1], rects[1][2],
                             rects[1][3], rects[1][4])
         IN  ClearRects(r.png, cleared + r.count, Tail(rects))

\* A masking that counts every cleared pixel twice: what C26 tells apart
\* from _applyBounds.
_applyBoundsCountingTwice(png) ==
    LET done == ClearRects(png, 0,
                           (IF useBounds(options.bounds)
                            THEN BoxRects(png, options.bounds)
                            ELSE <<>>)
                           \o IgnoreRects(options.ignore))
    IN  [png |-> done.png, cleared |-> 2 * done.cleared]

\* _applyBounds(png): [png |-> the masked raster, cleared |-> its return value].
_applyBounds(png) ==
    ClearRects(png, 0,
               (IF useBounds(options.bounds)
                THEN BoxRects(png, options.bounds)
                ELSE <<>>)
               \o IgnoreRects(options.ignore))

\* pixelmatch blends a pixel over white before comparing: a transparent
\* pixel reads as white (1) whatever its colour.
Blend(p) == IF p.a = 0 THEN 1 ELSE p.c

\* The colour distance of pixelmatch between two blended colours, to the
\* whole number below: 0.5053 * 255 * 255 between black and white.
ColourDelta(c1, c2) == IF c1 = c2 THEN 0 ELSE 32857

\* maxDelta = 35215 * threshold * threshold, to the whole number below.
MaxDelta(threshold) == (((35215 * threshold) \div 1000) * threshold) \div 1000

\* pixelmatch(img1, img2, output, width, height, args):
\* [count |-> number of differing pixels, out |-> the output buffer after].
\* A differing pixel is drawn in diffColor; an equal one is drawn in grey
\* unless args.diffMask, which leaves the output pixel as it was.
pixelmatch(img1, img2, output, args) ==
    LET differs(k) == ColourDelta(Blend(img1[k]), Blend(img2[k]))
                         > MaxDelta(args.threshold)
    IN  [count |-> Cardinality({k \in DOMAIN img1 : differs(k)}),
         out |-> [k \in DOMAIN output |->
                    IF differs(k) THEN "diff"
                    ELSE IF args.diffMask THEN output[k] ELSE "same"]]

\* new PNG({width, height}): a zero-filled buffer.
NewDiffBuffer(w, h) == [k \in 1..(w * h) |-> "none"]

----------------------------------------------------------------------------
(* Numbers. *)

\* parseFloat((100 * diffPixels / relevantPixels).toFixed(4)), in units of
\* 0.0001: toFixed rounds to the nearest, the larger of two equally near.
\* 0 / 0 is NaN; diffPixels / 0 with diffPixels > 0 cannot be reached, since
\* relevantPixels = 0 leaves both rasters all-zero.
DifferenceOf(diffPixels, relevantPixels) ==
    IF relevantPixels = 0
    THEN [nan |-> TRUE, e4 |-> 0]
    ELSE [nan |-> FALSE,
          e4 |-> (2 * 1000000 * diffPixels + relevantPixels)
                    \div (2 * relevantPixels)]

\* results[i].difference <= opts.tolerance: false for NaN.
WithinTolerance(difference, tolerance) ==
    ~difference.nan /\ difference.e4 <= tolerance

----------------------------------------------------------------------------
(* Option sanitation: _setupTest. *)

NoBounds == [left |-> 0, top |-> 0, width |-> 0, height |-> 0]

\* 'missing'
MISSING == <<"m", "i", "s", "s", "i", "n", "g">>

\* The pixelmatch threshold a helper has unless configured: 0.05.
DefaultThreshold == 50

\* The tolerance of 100 percent.
FullTolerance == 1000000

\* What the constructor makes of config.tolerance and config.threshold:
\* Math.min(top, Math.max(0, parseFloat(value))), or the field's initial
\* value when the configuration leaves it out.
ConfiguredNumber(value, initial, top, unit) ==
    IF value.t = "undefined" THEN initial
    ELSE MathMin(top, MathMax(0, parseFloat(value, unit)))

\* What the constructor makes of config.captureActual and
\* config.captureExpected.
ConfiguredCapture(value) ==
    IF value.t = "undefined" THEN Str(MISSING)
    ELSE _toBool(value, <<Str(MISSING)>>)

\* The page the driver shows: the selector '#e' locates one element.
Located(selector) == selector = <<"#", "e">>

\* _getBoundingBox(selector) for a located element, at a device pixel ratio
\* of 1.
_getBoundingBox(selector) ==
    [left |-> 1, top |-> 0, width |-> 1, height |-> H]

\* Whether the loop over options.ignore accepts item; an item that is null
\* passes 'object' === typeof item and fails on item.left.
IsIgnoreEntry(item) ==
    /\ item.t = "object"
    /\ Prop(item, "left").t # "undefined"
    /\ Prop(item, "top").t # "undefined"
    /\ Prop(item, "width").t # "undefined"
    /\ Prop(item, "height").t # "undefined"

\* The four fields of a bounds or ignore object, each through parseInt.
ParsedBox(o) ==
    [left |-> parseInt(Prop(o, "left")), top |-> parseInt(Prop(o, "top")),
     width |-> parseInt(Prop(o, "width")),
     height |-> parseInt(Prop(o, "height"))]

\* newValues.ignore after the loop over options.ignore.
SanitizedIgnore(value) ==
    IF value.t = "array"
    THEN LET kept == SelectSeq(value.items, IsIgnoreEntry)
         IN  [i \in 1..Len(kept) |-> ParsedBox(kept[i])]
    ELSE <<>>

\* The error _setupTest throws on the caller's options o, "" if none.
SetupError(o) ==
    IF Truthy(o.element) /\ ~Located(o.element.s)
    THEN "Element couldn't be located"
    ELSE IF /\ o.ignore.t = "array"
            /\ \E i \in 1..Len(o.ignore.items) : o.ignore.items[i].t = "null"
    THEN "TypeError: Cannot read properties of null"
    ELSE ""

\* The value of this.result that _setupTest sets.
FreshResult ==
    [match |-> TRUE, difference |-> [nan |-> FALSE, e4 |-> 0],
     diffImage |-> <<>>, diffPixels |-> 0, totalPixels |-> 0,
     relevantPixels |-> 0, variation |-> <<>>, variations |-> <<>>]

\* The options _setupTest builds from the caller's options object o.  A
\* field of o is a JavaScript value, Undefined when the caller left it out;
\* o.threshold and o.diffMask are the properties of o.args.
SanitizedOptions(o) ==
    [tolerance |-> IF o.tolerance.t # "undefined"
                   THEN MathMax(0, parseFloat(o.tolerance, 10000))
                   ELSE globalTolerance,
     compareWith |-> IF o.compareWith.t # "undefined"
                     THEN o.compareWith.s ELSE <<>>,
     element |-> IF Truthy(o.element) THEN o.element.s ELSE <<>>,
     bounds |-> IF Truthy(o.element) THEN _getBoundingBox(o.element.s)
                ELSE IF o.bounds.t = "object" THEN ParsedBox(o.bounds)
                ELSE NoBounds,
     ignore |-> SanitizedIgnore(o.ignore),
     args |-> [threshold |-> IF o.threshold.t # "undefined"
                             THEN o.threshold.n ELSE globalThreshold,
               diffMask |-> o.diffMask],
     captureActual |-> IF o.captureActual.t # "undefined"
                       THEN _toBool(o.captureActual, <<Str(MISSING)>>)
                       ELSE globalCaptureActual,
     captureExpected |-> IF o.captureExpected.t # "undefined"
                         THEN _toBool(o.captureExpected, <<Str(MISSING)>>)
                         ELSE globalCaptureExpected]

----------------------------------------------------------------------------
(* The inputs the model explores. *)

PixelCount == W * H

\* A fully opaque W x H raster whose first n pixels have colour 1.
Opaque(n) ==
    Raster(W, H, [k \in 1..PixelCount |->
                    [c |-> IF k <= n THEN 1 ELSE 0, a |-> 1]])

\* Opaque(0) with pixel t transparent (alpha 0) but coloured.
Transparent(t) ==
    Raster(W, H, [k \in 1..PixelCount |->
                    IF k = t THEN [c |-> 1, a |-> 0] ELSE [c |-> 0, a |-> 1]])

\* A raster of zero height.
EmptyRaster == Raster(W, 0, <<>>)

\* A raster one pixel wider than the actual image.
WiderRaster ==
    Raster(W + 1, H, [k \in 1..((W + 1) * H) |-> [c |-> 0, a |-> 1]])

\* Numbers of pixels in which a base image differs from Opaque(0).
DiffCounts == {0, 1, 2, PixelCount}

BaseRasters == {Opaque(n) : n \in DiffCounts} \cup {WiderRaster}

ActualRasters ==
    {Opaque(0), Transparent(1), Transparent(PixelCount), EmptyRaster}

\* What driver.saveScreenshot can capture.
Screenshots == {Opaque(0), Opaque(1)}

ActualName == <<"s">> \o PNG_EXT
VariationA == <<"s", "~", "a">> \o PNG_EXT
VariationB == <<"s", "~", "b">> \o PNG_EXT
OtherName  == <<"t">> \o PNG_EXT

\* The base images of "s": s.png and its variations.
BaseNames == ExpectedNames \ {OtherName}

\* Every way to fill a set of names with rasters.
Folders(names, rasters) ==
    UNION {[S -> rasters] : S \in SUBSET names}

Boxes == [left : 0..W, top : 0..H, width : 0..W, height : 0..H]

\* Ignore regions: a column of the raster, in place or moved down by one.
IgnoreRegions == [left : 0..(W - 1), top : {0, 1}, width : {1}, height : {H}]

FirstColumn == [left |-> 0, top |-> 0, width |-> 1, height |-> H]

IgnoreLists ==
    {<<>>} \cup {<<r>> : r \in IgnoreRegions}
           \cup {<<FirstColumn, r>> : r \in IgnoreRegions}

\* An array and the bounds object of a box of numbers.
Arr(items) == [t |-> "array", items |-> items]
RawBox(b) ==
    Obj([left |-> Num(b.left), top |-> Num(b.top),
         width |-> Num(b.width), height |-> Num(b.height)])
RawBoxes(list) == Arr([i \in 1..Len(list) |-> RawBox(list[i])])

CaptureFlags == {Undefined, Bool(TRUE), Bool(FALSE), Str(MISSING)}

ImageArgs == {<<"s">>, <<"s">> \o PNG_EXT, <<"s", "~", "a">> \o PNG_EXT}

\* A call of getVisualDifferences('s') without options that captures
\* nothing; the families below vary some of its fields.
PlainCall ==
    [kind |-> "get", image |-> <<"s">>, which |-> "actual",
     tolerance |-> Undefined, compareWith |-> Undefined,
     element |-> Undefined, bounds |-> Undefined, ignore |-> Undefined,
     threshold |-> Undefined, diffMask |-> FALSE,
     captureActual |-> Bool(FALSE), captureExpected |-> Bool(FALSE)]

\* The calls that are PlainCall except in the fields of the record set
\* fields.
Varying(fields) ==
    {[f \in DOMAIN PlainCall |->
         IF f \in DOMAIN v THEN v[f] ELSE PlainCall[f]] : v \in fields}

\* Calls with a bounding box and ignore regions, on images that are in place.
MaskCalls ==
    Varying([bounds : {Undefined} \cup {RawBox(b) : b \in Boxes},
             ignore : {RawBoxes(l) : l \in IgnoreLists}])

\* Calls that differ in what they capture and how the image is named.
CaptureCalls ==
    Varying([kind : {"get", "check"},
             image : ImageArgs,
             tolerance : {Undefined, Num(1000000)},
             captureActual : CaptureFlags,
             captureExpected : CaptureFlags])

\* Calls that compare several base images.
VariationCalls ==
    Varying([kind : {"get", "check"},
             tolerance : {Undefined, Num(0 - 1), Num(166666), Num(166667),
                          Num(1000000)},
             bounds : {Undefined,
                       RawBox([left |-> 0, top |-> 0, width |-> W - 1,
                               height |-> H])}])
    \cup Varying([diffMask : {TRUE}])

\* Option values that need sanitation.
ToleranceValues ==
    {Num(1500000), Num(0 - 50000), Str(<<"2", ".", "5">>),
     Str(<<"1", "0", "0", "%">>), Str(<<"a", "b", "c">>)}

BoundsValues ==
    {Obj([left |-> Num(1)]),
     Obj([left |-> Str(<<"1">>), top |-> Str(<<"0">>),
          width |-> Str(<<"2", "p", "x">>), height |-> Num(H)]),
     Obj([left |-> Num(0), top |-> Num(0), width |-> Str(<<"w">>),
          height |-> Num(1)]),
     Null}

LastColumn == [left |-> W - 1, top |-> 0, width |-> 1, height |-> H]

IgnoreValues ==
    {Arr(<<RawBox(LastColumn), Obj([left |-> Num(0), top |-> Num(0)]),
           Num(5), Undefined, RawBox(FirstColumn)>>),
     Arr(<<Obj([left |-> Str(<<"0">>), top |-> Str(<<"0">>),
                width |-> Str(<<"1">>), height |-> Str(<<"x">>)])>>),
     Arr(<<RawBox(FirstColumn), Null>>)}

FlagValues ==
    {Str(MISSING), Str(<<"M", "i", "s", "s", "i", "n", "g">>),
     Str(<<"Y", "e", "s">>), Str(<<"n">>), Str(<<>>), Num(0), Num(1), Null}

\* Calls whose options need sanitation, one option at a time, and the calls
\* that name the image in every way.
SetupCalls ==
    Varying([tolerance : ToleranceValues])
    \cup Varying([bounds : BoundsValues])
    \cup Varying([element : {Str(<<"#", "e">>), Str(<<"#", "x">>)},
                  bounds : {Undefined, RawBox(LastColumn)}])
    \cup Varying([ignore : IgnoreValues])
    \cup Varying([captureActual : FlagValues])
    \cup Varying([captureExpected : FlagValues])
    \cup Varying([threshold : {Undefined, Num(100), Num(1000)},
                  kind : {"get", "check"}])
    \cup Varying([compareWith : {Str(<<"t">>), Str(<<>>)}])
    \cup Varying([image : {<<"s", "~", "a">>, <<"s", "~", "a">> \o PNG_EXT,
                           <<"s">> \o PNG_EXT}])
    \cup Varying([kind : {"shot"}, which : {"actual", "expected"},
                  image : {<<"s">>, <<"t">>}])

\* The calls that follow the first call of a helper.
LaterCalls ==
    Varying([kind : {"get", "check"}])
    \cup Varying([tolerance : {Num(1000000)}, bounds : {RawBox(LastColumn)},
                  ignore : {RawBoxes(<<FirstColumn>>)},
                  compareWith : {Str(<<"t">>)}, threshold : {Num(100)}])
    \cup Varying([kind : {"shot"}])

\* The configuration that leaves everything out.
NoConfig ==
    [tolerance |-> Undefined, threshold |-> Undefined,
     captureActual |-> Undefined, captureExpected |-> Undefined,
     dirExpected |-> Undefined]

\* Configurations, each NoConfig except in one or two fields.
Configs ==
    {[f \in DOMAIN NoConfig |-> IF f \in DOMAIN v THEN v[f] ELSE NoConfig[f]] :
        v \in [tolerance : {Num(0), Num(25000), Num(1500000),
                            Str(<<"a", "b", "c">>)}]
              \cup [threshold : {Num(100), Num(2000)}]
              \cup [captureActual : {Bool(FALSE), Str(MISSING),
                                     Str(<<"a", "l", "w", "a", "y", "s">>)},
                    captureExpected : {Bool(TRUE), Str(MISSING)}]
              \cup [dirExpected : {Str(<<"/", "~", "/">>)}]}

\* The expected folders with at most one base image of "s", and those with
\* several.
SingleFolders ==
    Folders({ActualName}, BaseRasters)
    \cup [{VariationA} -> BaseRasters]

MultiFolders ==
    [{ActualName, VariationA} -> BaseRasters]
    \cup [{VariationA, VariationB} -> BaseRasters]
    \cup [{ActualName, VariationA, VariationB} -> BaseRasters]
    \cup [BaseNames -> {Opaque(1), Opaque(2)}]

\* Number of base images of "s" in the expected folder.
BaseCount == Cardinality(DOMAIN expectedFiles \cap BaseNames)

\* The file systems on which the masking calls are explored.
MaskFolders ==
    /\ globalDir.diff
    /\ DOMAIN expectedFiles \cap BaseNames = {ActualName}
    /\ FileExists(actualFiles, ActualName)
    /\ \/ /\ expectedFiles[ActualName] = Opaque(PixelCount)
          /\ actualFiles[ActualName].height > 0
       \/ /\ expectedFiles[ActualName] = Opaque(0)
          /\ actualFiles[ActualName] = Opaque(0)

\* The calls explored from the current state: a configured helper gets the
\* calls that need sanitation and then further calls; a helper without
\* configuration gets one call that depends on the file system.
Calls ==
    IF callsMade > 0 THEN LaterCalls
    ELSE IF config # NoConfig THEN SetupCalls
    ELSE IF BaseCount >= 2 THEN VariationCalls
    ELSE IF MaskFolders THEN MaskCalls \cup CaptureCalls
    ELSE CaptureCalls

----------------------------------------------------------------------------
(* The state machine. *)

NoLocals ==
    [expectedImages |-> <<>>, imgActual |-> EmptyRaster,
     imgExpected |-> EmptyRaster, totalPixels |-> 0, ignoredPixels |-> 0,
     results |-> <<>>, bestIndex |-> 0, bestDifference |-> 0,
     bestImgDiff |-> [defined |-> FALSE, data |-> <<>>],
     imgDiff |-> <<>>, i |-> 0]

Pending == [state |-> "pending", type |-> "none", msg |-> "", res |-> FreshResult]

\* './tests/screenshots/base/' resolved: the expected folder of a helper
\* that configures none.
DefaultDirExpected == <<"/", "e", "/">>

\* The constructor, on the configuration c.
Construct(c) ==
    /\ config = c
    /\ globalDir \in [diff : BOOLEAN,
                      expected : {IF Truthy(c.dirExpected)
                                  THEN c.dirExpected.s
                                  ELSE DefaultDirExpected}]
    /\ globalTolerance = ConfiguredNumber(c.tolerance, 0, FullTolerance, 10000)
    /\ globalThreshold =
          ConfiguredNumber(c.threshold, DefaultThreshold, 1000, 1000)
    /\ globalCaptureActual = ConfiguredCapture(c.captureActual)
    /\ globalCaptureExpected = ConfiguredCapture(c.captureExpected)

\* No masking runs on its own.
NoMasking ==
    /\ maskedPng = EmptyRaster
    /\ maskCleared = 0
    /\ maskRects = <<>>
    /\ maskCalls = <<>>
    /\ maskPc = "off"

Init ==
    /\ \/ /\ Construct(NoConfig)
          /\ \/ /\ \E base \in SingleFolders :
                      expectedFiles = WriteFile(base, OtherName, Opaque(1))
                /\ actualFiles \in Folders({ActualName}, ActualRasters)
             \/ /\ \E base \in MultiFolders :
                      expectedFiles = WriteFile(base, OtherName, Opaque(1))
                /\ actualFiles = [n \in {ActualName} |-> Opaque(0)]
       \/ /\ \E c \in Configs : Construct(c)
          /\ globalDir.diff
          /\ expectedFiles = [n \in {ActualName, OtherName} |-> Opaque(1)]
          /\ actualFiles = [n \in {ActualName} |-> Opaque(0)]
    /\ diffFiles = <<>>
    /\ pc = "idle"
    /\ kind = "get"
    /\ call = PlainCall
    /\ callsMade = 0
    /\ imageName = <<>>
    /\ options = SanitizedOptions(PlainCall)
    /\ result = FreshResult
    /\ resultId = 0
    /\ handed = <<>>
    /\ loc = NoLocals
    /\ err = ""
    /\ returned = FALSE
    /\ promise = Pending
    /\ settleCalls = <<>>
    /\ diffWrites = <<>>
    /\ expectedAtCall = expectedFiles
    /\ deleted = [which |-> "none", existed |-> FALSE, threw |-> FALSE]
    /\ NoMasking
    /\ running = <<>>

\* throw new Error(msg) inside a call.
Throw(msg) ==
    /\ pc' = "thrown"
    /\ err' = msg

\* The running call has ended: the next one can be made.
CallEnded ==
    \/ pc \in {"done", "settled"}
    \/ pc \in {"returned", "thrown"} /\ kind # "check"

\* Overwrites the content of the result object id wherever it was handed out.
WrittenThrough(id, value) ==
    [k \in 1..Len(handed) |->
        IF handed[k].id = id THEN [handed[k] EXCEPT !.now = value]
        ELSE handed[k]]

\* A result object that is reset in place: what C11 tells apart from
\* NewResultObject.
SameResultObject == resultId

\* this.result = {...}: the object literal makes a new object.
NewResultObject == resultId + 1

\* getVisualDifferences(image, o), checkVisualDifferences(image, o) or
\* takeScreenshot(image, which) is called: _setupTest up to its end.  It
\* sets this.imageName and this.result, and this.options unless it throws.
SetupTest ==
    /\ \/ pc = "idle"
       \/ CallEnded /\ callsMade < MaxCalls /\ config # NoConfig
    /\ \E o \in Calls :
          /\ kind' = o.kind
          /\ call' = o
          /\ imageName' = StripVariationAndExt(o.image)
          /\ IF SetupError(o) # ""
             THEN Throw(SetupError(o)) /\ options' = options
             ELSE /\ options' = SanitizedOptions(o)
                  /\ pc' = IF o.kind = "shot" THEN "shot" ELSE "captureActual"
                  /\ err' = ""
    /\ callsMade' = callsMade + 1
    /\ result' = FreshResult
    /\ resultId' = NewResultObject
    /\ handed' = WrittenThrough(NewResultObject, FreshResult)
    /\ loc' = NoLocals
    /\ returned' = FALSE
    /\ promise' = Pending
    /\ settleCalls' = <<>>
    /\ diffWrites' = <<>>
    /\ expectedAtCall' = expectedFiles
    /\ UNCHANGED <<masking, running>>
    /\ UNCHANGED <<constructed, expectedFiles, actualFiles, diffFiles, deleted>>

\* The file fn of folder removed.
RemoveFile(folder, fn) == [x \in (DOMAIN folder) \ {fn} |-> folder[x]]

\* _deleteFile(file) of src/index.js, as the set of its outcomes
\* [threw, folder]: fs.unlinkSync removes an existing file or fails.
_deleteFile(folder, fn) ==
    IF FileExists(folder, fn)
    THEN {[threw |-> FALSE, folder |-> RemoveFile(folder, fn)],
          [threw |-> TRUE, folder |-> folder]}
    ELSE {[threw |-> FALSE, folder |-> folder]}

\* _deleteFile(file) of utils/common, called as a plain function: it reads
\* this._isFile.  Where the build binds this to the module's exports it
\* behaves as above; where this is undefined, reading this._isFile throws
\* inside the try block and the catch block raises the error.
_deleteFileCommon(folder, fn) ==
    _deleteFile(folder, fn) \cup {[threw |-> TRUE, folder |-> folder]}

\* _takeScreenshot(name, which) on the folder it writes to, as the set of
\* its outcomes [err, folder, deleted]: driver.saveScreenshot,
\* _deleteFile(outputFile), fs.renameSync.  The temporary file is gone after
\* the rename, so the second _deleteFile has nothing to remove.
_takeScreenshot(which, folder, fn) ==
    {[err |-> "saveScreenshot failed", folder |-> folder, deleted |-> deleted]}
    \cup
    UNION {IF d.threw
           THEN {[err |-> "Could not delete target file",
                  folder |-> folder,
                  deleted |-> [which |-> which,
                               existed |-> FileExists(folder, fn),
                               threw |-> TRUE]]}
           ELSE {[err |-> "",
                  folder |-> WriteFile(d.folder, fn, shot),
                  deleted |-> [which |-> which,
                               existed |-> FileExists(folder, fn),
                               threw |-> FALSE]] : shot \in Screenshots}
           : d \in _deleteFileCommon(folder, fn)}

\* A capture that, under 'missing', looks at the exact file only and not
\* at the variations of the base image: what C25 tells apart from
\* TakesScreenshot.
TakesScreenshotUnlessExact(which, captureFlag) ==
    /\ captureFlag # Bool(FALSE)
    /\ \/ captureFlag # Str(MISSING)
       \/ ~FileExists(IF which = "expected" THEN expectedFiles
                      ELSE actualFiles, _getFileName(which, <<>>))

\* A capture that takes false for 'missing' and fills in an absent image:
\* what C30 tells apart from TakesScreenshot.
TakesScreenshotWhenAbsent(which, captureFlag) ==
    \/ captureFlag = Bool(TRUE)
    \/ IF which = "expected"
       THEN /\ ~FileExists(expectedFiles, _getFileName("expected", <<>>))
            /\ _getExpectedImagePaths = <<>>
       ELSE ~FileExists(actualFiles, _getFileName("actual", <<>>))

\* Whether _maybeCaptureImage(which, captureFlag) goes on to _takeScreenshot.
TakesScreenshot(which, captureFlag) ==
    /\ captureFlag # Bool(FALSE)
    /\ \/ captureFlag # Str(MISSING)
       \/ IF which = "expected"
          THEN /\ ~FileExists(expectedFiles, _getFileName("expected", <<>>))
               /\ _getExpectedImagePaths = <<>>
          ELSE ~FileExists(actualFiles, _getFileName("actual", <<>>))

\* await this._maybeCaptureImage('actual', opts.captureActual)
CaptureActual ==
    /\ pc = "captureActual"
    /\ IF TakesScreenshot("actual", options.captureActual)
       THEN \E out \in _takeScreenshot("actual", actualFiles,
                                       _getFileName("actual", <<>>)) :
               /\ actualFiles' = out.folder
               /\ deleted' = out.deleted
               /\ IF out.err # "" THEN Throw(out.err)
                  ELSE pc' = "captureExpected" /\ err' = err
       ELSE /\ pc' = "captureExpected"
            /\ UNCHANGED <<actualFiles, err, deleted>>
    /\ UNCHANGED <<masking, running>>
    /\ UNCHANGED <<constructed, expectedFiles, diffFiles, kind, call, callsMade,
                   imageName, options, result, resultId, handed, loc,
                   returned, promise, settleCalls, diffWrites, expectedAtCall>>

\* await this._maybeCaptureImage('expected', opts.captureExpected)
CaptureExpected ==
    /\ pc = "captureExpected"
    /\ IF TakesScreenshot("expected", options.captureExpected)
       THEN \E out \in _takeScreenshot("expected", expectedFiles,
                                       _getFileName("expected", <<>>)) :
               /\ expectedFiles' = out.folder
               /\ deleted' = out.deleted
               /\ IF out.err # "" THEN Throw(out.err)
                  ELSE pc' = "load" /\ err' = err
       ELSE /\ pc' = "load"
            /\ UNCHANGED <<expectedFiles, err, deleted>>
    /\ UNCHANGED <<masking, running>>
    /\ UNCHANGED <<constructed, actualFiles, diffFiles, kind, call, callsMade,
                   imageName, options, result, resultId, handed, loc,
                   returned, promise, settleCalls, diffWrites, expectedAtCall>>

\* takeScreenshot(name, which) after _setupTest: _takeScreenshot into the
\* expected folder when which is 'expected', into the actual folder
\* otherwise.
TakeScreenshot ==
    /\ pc = "shot"
    /\ IF call.which = "expected"
       THEN /\ \E out \in _takeScreenshot("expected", expectedFiles,
                                          _getFileName("expected", <<>>)) :
                  /\ expectedFiles' = out.folder
                  /\ deleted' = out.deleted
                  /\ IF out.err # "" THEN Throw(out.err)
                     ELSE pc' = "done" /\ err' = err
            /\ actualFiles' = actualFiles
       ELSE /\ \E out \in _takeScreenshot("actual", actualFiles,
                                          _getFileName("actual", <<>>)) :
                  /\ actualFiles' = out.folder
                  /\ deleted' = out.deleted
                  /\ IF out.err # "" THEN Throw(out.err)
                     ELSE pc' = "done" /\ err' = err
            /\ expectedFiles' = expectedFiles
    /\ UNCHANGED <<masking, running>>
    /\ UNCHANGED <<constructed, diffFiles, kind, call, callsMade, imageName,
                   options, result, resultId, handed, loc, returned, promise,
                   settleCalls, diffWrites, expectedAtCall>>

\* getVisualDifferences from _getExpectedImagePaths() to the candidate loop.
LoadActual ==
    /\ pc = "load"
    /\ LET expectedImages == _getExpectedImagePaths
           name == _getFileName("actual", <<>>)
       IN  IF expectedImages = <<>>
           THEN Throw("No expected base image found") /\ loc' = loc
           ELSE IF ~FileExists(actualFiles, name)
           THEN Throw("The actual-image does not exist") /\ loc' = loc
           ELSE IF actualFiles[name].height = 0
           THEN Throw("Current screenshot is empty (zero height)") /\ loc' = loc
           ELSE LET imgActual == actualFiles[name]
                    masked == _applyBounds(imgActual)
                    totalPixels == imgActual.width * imgActual.height
                IN  /\ loc' = [expectedImages |-> expectedImages,
                               imgActual |-> masked.png,
                               imgExpected |-> EmptyRaster,
                               totalPixels |-> totalPixels,
                               ignoredPixels |-> masked.cleared,
                               results |-> <<>>,
                               bestIndex |-> 0,
                               bestDifference |-> totalPixels,
                               bestImgDiff |-> [defined |-> FALSE, data |-> <<>>],
                               imgDiff |-> NewDiffBuffer(imgActual.width,
                                                         imgActual.height),
                               i |-> 0]
                    /\ pc' = "loop"
                    /\ err' = err
    /\ UNCHANGED <<masking, running>>
    /\ UNCHANGED <<constructed, expectedFiles, actualFiles, diffFiles, kind,
                   call, callsMade, imageName, options, result, resultId, handed,
                   returned, promise, settleCalls, diffWrites, expectedAtCall,
                   deleted>>

\* A match that needs the difference to be below the tolerance: what C3
\* tells apart from MatchOf.
MatchBelow(difference) ==
    ~difference.nan /\ difference.e4 < options.tolerance

\* results[i].match = results[i].difference <= opts.tolerance
MatchOf(difference) == WithinTolerance(difference, options.tolerance)

\* A diffImage that is named whether or not the images match: what C9 tells
\* apart from DiffImageOf.
DiffImageAlways(match, i) ==
    IF globalDir.diff THEN _getFileName("diff", IndexSuffix(i)) ELSE <<>>

\* results[i].diffImage, i counted from 0.
DiffImageOf(match, i) ==
    IF ~match /\ globalDir.diff
    THEN _getFileName("diff", IndexSuffix(i))
    ELSE <<>>

\* The record results[i] of the base image imgPath.
CandidateRecord(i, imgPath, diffPixels) ==
    LET relevantPixels == loc.totalPixels - loc.ignoredPixels
        difference == DifferenceOf(diffPixels, relevantPixels)
        match == MatchOf(difference)
    IN  [diffPixels |-> diffPixels,
         totalPixels |-> loc.totalPixels,
         relevantPixels |-> relevantPixels,
         difference |-> difference,
         match |-> match,
         variation |-> VariationOf(imgPath),
         diffImage |-> DiffImageOf(match, i)]

\* A selection that prefers the base image with more differing pixels, and
\* so stays with the first: what C27 tells apart from IsBetter.
IsWorse(diffPixels, bestDifference) == diffPixels > bestDifference

\* A selection that lets a later base image with the same diffPixels win:
\* what C4 tells apart from IsBetter.
IsBetterOrEqual(diffPixels, bestDifference) == diffPixels <= bestDifference

\* if (results[i].diffPixels < bestDifference)
IsBetter(diffPixels, bestDifference) == diffPixels < bestDifference

\* PNG.sync.write(imgDiff): a copy of the buffer as it is now.
Serialized(buffer) == [defined |-> TRUE, data |-> buffer]

\* A loop that passes over a base image of another size, recording it as
\* differing in every pixel: what C8 tells apart from RejectCandidate.
SkipCandidate ==
    /\ loc' = [loc EXCEPT
                 !.results = Append(@, CandidateRecord(loc.i,
                                 loc.expectedImages[loc.i + 1],
                                 loc.totalPixels)),
                 !.i = @ + 1]
    /\ UNCHANGED <<pc, err>>

\* if (imgExpected.width !== imgActual.width || ...) throw new Error(...)
RejectCandidate ==
    /\ Throw("Image sizes do not match")
    /\ loc' = loc

\* One pass of the loop over expectedImages.
CompareNext ==
    /\ pc = "loop"
    /\ loc.i < Len(loc.expectedImages)
    /\ LET imgPath == loc.expectedImages[loc.i + 1]
           imgExpected == expectedFiles[Basename(imgPath)]
       IN  IF \/ imgExpected.width # loc.imgActual.width
              \/ imgExpected.height # loc.imgActual.height
           THEN RejectCandidate
           ELSE LET masked == _applyBounds(imgExpected).png
                    pm == pixelmatch(masked.data, loc.imgActual.data,
                                     loc.imgDiff, options.args)
                    rec == CandidateRecord(loc.i, imgPath, pm.count)
                    better == IsBetter(rec.diffPixels, loc.bestDifference)
                IN  /\ loc' = [loc EXCEPT
                                 !.imgExpected = masked,
                                 !.imgDiff = pm.out,
                                 !.results = Append(@, rec),
                                 !.bestImgDiff =
                                     IF better THEN Serialized(pm.out) ELSE @,
                                 !.bestDifference =
                                     IF better THEN rec.diffPixels ELSE @,
                                 !.bestIndex = IF better THEN loc.i ELSE @,
                                 !.i = @ + 1]
                    /\ UNCHANGED <<pc, err>>
    /\ UNCHANGED <<masking, running>>
    /\ UNCHANGED <<constructed, expectedFiles, actualFiles, diffFiles, kind,
                   call, callsMade, imageName, options, result, resultId, handed,
                   returned, promise, settleCalls, diffWrites, expectedAtCall,
                   deleted>>

\* The result getVisualDifferences assembles after the loop: the fields of
\* results[bestIndex], then res.variations = results.
BestResult ==
    LET best == loc.results[loc.bestIndex + 1]
    IN  [match |-> best.match, difference |-> best.difference,
         diffImage |-> best.diffImage, diffPixels |-> best.diffPixels,
         totalPixels |-> best.totalPixels,
         relevantPixels |-> best.relevantPixels,
         variation |-> best.variation, variations |-> loc.results]

\* Whether _savePngImage('diff', png, suffix) reaches fs.writeFileSync: the
\* diff folder is configured and png is a Buffer.
SavesDiff(png) == globalDir.diff /\ png.defined

\* The end of getVisualDifferences: the best match becomes the result and its
\* diff image is saved.
Finish ==
    /\ pc = "loop"
    /\ loc.i = Len(loc.expectedImages)
    /\ LET res == BestResult
           file == _getFileName("diff", res.variation)
       IN  /\ result' = res
           /\ handed' = Append(WrittenThrough(resultId, res),
                               [id |-> resultId, asReturned |-> res,
                                now |-> res])
           /\ IF ~res.match /\ SavesDiff(loc.bestImgDiff)
              THEN /\ diffFiles' = WriteFile(diffFiles, file, loc.bestImgDiff.data)
                   /\ diffWrites' = Append(diffWrites, file)
              ELSE UNCHANGED <<diffFiles, diffWrites>>
    /\ returned' = TRUE
    /\ pc' = "returned"
    /\ UNCHANGED <<masking, running>>
    /\ UNCHANGED <<constructed, expectedFiles, actualFiles, kind, call,
                   callsMade, imageName, options, resultId, loc, err, promise,
                   settleCalls, expectedAtCall, deleted>>

\* A call of resolve or reject settles a pending promise and is ignored by a
\* settled one.
RECURSIVE Settle(_, _)
Settle(p, calls) ==
    IF calls = <<>> THEN p
    ELSE Settle(IF p.state = "pending" THEN Head(calls) ELSE p, Tail(calls))

\* reject(err) and reject(msg.join(' - ')): the message is built from
\* res.difference and res.diffImage, kept here as res.
Rejected(type, msg, res) ==
    [state |-> "rejected", type |-> type, msg |-> msg, res |-> res]

Resolved(res) ==
    [state |-> "fulfilled", type |-> "result", msg |-> "", res |-> res]

\* An executor without the catch block: what C10 tells apart from
\* ExecutorCalls.
ExecutorCallsWithoutCatch ==
    <<IF result.match
      THEN Resolved(result)
      ELSE Rejected("different", "Images are different by", result)>>

\* The calls of resolve and reject the executor of checkVisualDifferences
\* makes once getVisualDifferences has returned or thrown.
ExecutorCalls ==
    (IF pc = "thrown" THEN <<Rejected("error", err, FreshResult)>> ELSE <<>>)
    \o <<IF result.match
         THEN Resolved(result)
         ELSE Rejected("different", "Images are different by", result)>>

\* checkVisualDifferences after its await.
CheckSettle ==
    /\ kind = "check"
    /\ pc \in {"returned", "thrown"}
    /\ settleCalls' = ExecutorCalls
    /\ promise' = Settle(promise, ExecutorCalls)
    /\ pc' = "settled"
    /\ UNCHANGED <<masking, running>>
    /\ UNCHANGED <<constructed, expectedFiles, actualFiles, diffFiles, kind,
                   call, callsMade, imageName, options, result, resultId, handed,
                   loc, err, returned, diffWrites, expectedAtCall, deleted>>

Next ==
    \/ SetupTest
    \/ TakeScreenshot
    \/ CaptureActual
    \/ CaptureExpected
    \/ LoadActual
    \/ CompareNext
    \/ Finish
    \/ CheckSettle

Spec == Init /\ [][Next]_vars

----------------------------------------------------------------------------
(* The masking on its own: _applyBounds and _clearRect on one raster, for   *)
(* every box, also one that leaves the raster, and for every corner pair.   *)

\* The rasters that are masked.
MaskRasters == {Opaque(0), Opaque(2), Transparent(1), Transparent(PixelCount)}

\* The coordinates _clearRect is called with.
XCoords == (0 - 1)..(W + 1)
YCoords == (0 - 1)..(H + 1)

\* The values of opts.bounds.
MaskBounds ==
    [left : (0 - 1)..W, top : (0 - 1)..H,
     width : (0 - 1)..(W + 1), height : (0 - 1)..(H + 1)]

TopRow == [left |-> 0, top |-> 0, width |-> W, height |-> 1]

\* The values of opts.ignore: regions that overlap each other and the
\* area outside the box.
MaskIgnores ==
    {<<>>, <<FirstColumn>>, <<FirstColumn, FirstColumn>>,
     <<FirstColumn, TopRow>>}

\* The helper at rest, with the options the masking reads.
MaskInit ==
    /\ Construct(NoConfig)
    /\ globalDir.diff
    /\ expectedFiles = <<>>
    /\ actualFiles = <<>>
    /\ diffFiles = <<>>
    /\ pc = "idle"
    /\ kind = "get"
    /\ call = PlainCall
    /\ callsMade = 0
    /\ imageName = <<>>
    /\ \E b \in MaskBounds, g \in MaskIgnores :
          options = [SanitizedOptions(PlainCall) EXCEPT !.bounds = b,
                                                        !.ignore = g]
    /\ result = FreshResult
    /\ resultId = 0
    /\ handed = <<>>
    /\ loc = NoLocals
    /\ err = ""
    /\ returned = FALSE
    /\ promise = Pending
    /\ settleCalls = <<>>
    /\ diffWrites = <<>>
    /\ expectedAtCall = expectedFiles
    /\ deleted = [which |-> "none", existed |-> FALSE, threw |-> FALSE]
    /\ maskedPng \in MaskRasters
    /\ maskCleared = 0
    /\ maskRects = <<>>
    /\ maskCalls = <<>>
    /\ maskPc = "start"
    /\ running = <<>>

\* _applyBounds(png) up to its first _clearRect: the strips around the box
\* if bounds are in use, then the ignored regions.
ApplyBounds ==
    /\ maskPc = "start"
    /\ maskRects' = (IF useBounds(options.bounds)
                     THEN BoxRects(maskedPng, options.bounds)
                     ELSE <<>>)
                    \o IgnoreRects(options.ignore)
    /\ maskPc' = "mask"
    /\ UNCHANGED <<maskedPng, maskCleared, maskCalls>>
    /\ UNCHANGED <<helper, running>>

\* cleared += this._clearRect(png, x0, y0, x1, y1)
ClearRect ==
    /\ maskPc \in {"mask", "direct"}
    /\ maskRects # <<>>
    /\ LET r == Head(maskRects)
           out == _clearRect(maskedPng, r[1], r[2], r[3], r[4])
       IN  /\ maskedPng' = out.png
           /\ maskCleared' = maskCleared + out.count
           /\ maskCalls' = Append(maskCalls, [before |-> maskedPng,
                                              rect |-> r,
                                              count |-> out.count])
    /\ maskRects' = Tail(maskRects)
    /\ UNCHANGED maskPc
    /\ UNCHANGED <<helper, running>>

\* A caller of _clearRect with arguments of its own.
ClearAny ==
    /\ maskPc = "start"
    /\ options.bounds = NoBounds
    /\ options.ignore = <<>>
    /\ \E x0 \in XCoords, y0 \in YCoords, x1 \in XCoords, y1 \in YCoords :
          maskRects' = << <<x0, y0, x1, y1>> >>
    /\ maskPc' = "direct"
    /\ UNCHANGED <<maskedPng, maskCleared, maskCalls>>
    /\ UNCHANGED <<helper, running>>

\* The caller clears the same rectangle once more, its corners in the same
\* or in the other order.
ClearAgain ==
    /\ maskPc = "direct"
    /\ maskRects = <<>>
    /\ Len(maskCalls) < MaxClears
    /\ LET r == maskCalls[Len(maskCalls)].rect
       IN  maskRects' \in {<<r>>, << <<r[3], r[4], r[1], r[2]>> >>}
    /\ UNCHANGED <<maskedPng, maskCleared, maskCalls, maskPc>>
    /\ UNCHANGED <<helper, running>>

MaskNext ==
    \/ ApplyBounds
    \/ ClearRect
    \/ ClearAny
    \/ ClearAgain

MaskSpec == MaskInit /\ [][MaskNext]_vars

----------------------------------------------------------------------------
(* Calls that overlap: a second call is made on the helper while the first *)
(* is suspended at an await.  Each call runs from one await to the next in *)
(* one step; this.imageName, this.options and this.result are the fields   *)
(* of the one helper, opts and res the locals of each call.                *)

Callers == {1, 2}

\* The first call is a comparison; the second is a comparison or a
\* screenshot.
FirstCalls ==
    Varying([image : {<<"s">>, <<"t">>},
             element : {Undefined, Str(<<"#", "e">>)},
             captureActual : {Bool(FALSE), Bool(TRUE)},
             tolerance : {Undefined, Num(FullTolerance)}])

SecondCalls ==
    FirstCalls \cup Varying([kind : {"shot"}, image : {<<"s">>, <<"t">>}])

NotRunning ==
    [pc |-> "idle", args |-> PlainCall, opts |-> SanitizedOptions(PlainCall),
     res |-> 0, outputFile |-> <<>>,
     used |-> [imageName |-> <<>>, actual |-> <<>>, expected |-> <<>>,
               bounds |-> NoBounds, tolerance |-> 0],
     out |-> FreshResult, err |-> ""]

\* A helper with the images s and t in place; t differs from its base image.
RaceInit ==
    /\ Construct(NoConfig)
    /\ globalDir.diff
    /\ expectedFiles = WriteFile([n \in {ActualName} |-> Opaque(0)],
                                 OtherName, Opaque(2))
    /\ actualFiles = [n \in {ActualName, OtherName} |-> Opaque(0)]
    /\ diffFiles = <<>>
    /\ pc = "idle"
    /\ kind = "get"
    /\ call = PlainCall
    /\ callsMade = 0
    /\ imageName = <<>>
    /\ options = SanitizedOptions(PlainCall)
    /\ result = FreshResult
    /\ resultId = 0
    /\ handed = <<>>
    /\ loc = NoLocals
    /\ err = ""
    /\ returned = FALSE
    /\ promise = Pending
    /\ settleCalls = <<>>
    /\ diffWrites = <<>>
    /\ expectedAtCall = expectedFiles
    /\ deleted = [which |-> "none", existed |-> FALSE, threw |-> FALSE]
    /\ NoMasking
    /\ running = [p \in Callers |-> NotRunning]

\* What the overlapping calls leave alone.
besideRace == <<masking, constructed, expectedFiles, pc, kind, call,
                callsMade, handed, loc, err, returned, promise, settleCalls,
                diffWrites, expectedAtCall, deleted>>

\* The call p is suspended where the second call comes in: at the await of
\* _getBoundingBox or of driver.saveScreenshot.
Suspended(p) == running[p].pc \in {"boundingBox", "screenshot"}

\* getVisualDifferences(image, options) or takeScreenshot(name) is called:
\* _setupTest runs to its first await, or to its end if it has none.
Begin(p) ==
    /\ running[p].pc = "idle"
    /\ p = 1 \/ Suspended(1)
    /\ \E c \in (IF p = 1 THEN FirstCalls ELSE SecondCalls) :
          LET given == IF c.kind = "shot" THEN PlainCall ELSE c
              waits == Truthy(given.element)
          IN  /\ imageName' = StripVariationAndExt(c.image)
              /\ result' = FreshResult
              /\ resultId' = NewResultObject
              /\ options' = IF waits THEN options ELSE SanitizedOptions(given)
              /\ running' = [running EXCEPT ![p] =
                    [@ EXCEPT !.args = c,
                              !.pc = IF waits THEN "boundingBox"
                                     ELSE "setupDone"]]
    /\ UNCHANGED <<besideRace, actualFiles, diffFiles>>

\* _getBoundingBox has resolved: _setupTest goes on to this.options =
\* newValues.
BoundingBox(p) ==
    /\ running[p].pc = "boundingBox"
    /\ options' = SanitizedOptions(running[p].args)
    /\ running' = [running EXCEPT ![p].pc = "setupDone"]
    /\ UNCHANGED <<besideRace, actualFiles, diffFiles, imageName, result,
                   resultId>>

\* The await of _setupTest is over: the call reads this.options and
\* this.result into opts and res and goes on to the screenshot, if any.
AfterSetup(p) ==
    /\ running[p].pc = "setupDone"
    /\ LET shoots == \/ running[p].args.kind = "shot"
                     \/ TakesScreenshot("actual", options.captureActual)
       IN  running' = [running EXCEPT ![p] =
              [@ EXCEPT !.opts = options,
                        !.res = resultId,
                        !.outputFile = IF shoots
                                       THEN _getFileName("actual", <<>>)
                                       ELSE @,
                        !.pc = IF shoots THEN "screenshot" ELSE "compare"]]
    /\ UNCHANGED <<besideRace, actualFiles, diffFiles, imageName, options,
                   result, resultId>>

\* driver.saveScreenshot has resolved or failed: _takeScreenshot moves the
\* screenshot to outputFile.
Screenshot(p) ==
    /\ running[p].pc = "screenshot"
    /\ \/ /\ running' = [running EXCEPT ![p].pc = "thrown",
                                       ![p].err = "saveScreenshot failed"]
          /\ actualFiles' = actualFiles
       \/ \E shot \in Screenshots :
             /\ actualFiles' = WriteFile(actualFiles, running[p].outputFile,
                                         shot)
             /\ running' = [running EXCEPT ![p].pc =
                              IF running[p].args.kind = "shot" THEN "done"
                              ELSE "compare"]
    /\ UNCHANGED <<besideRace, diffFiles, imageName, options, result,
                   resultId>>

\* The record of the one base image imgPath of this folder: results[0].
RaceRecord(imgPath, totalPixels, cleared, diffPixels, opts) ==
    LET relevantPixels == totalPixels - cleared
        difference == DifferenceOf(diffPixels, relevantPixels)
        match == WithinTolerance(difference, opts.tolerance)
    IN  [diffPixels |-> diffPixels, totalPixels |-> totalPixels,
         relevantPixels |-> relevantPixels, difference |-> difference,
         match |-> match, variation |-> VariationOf(imgPath),
         diffImage |-> DiffImageOf(match, 0)]

\* getVisualDifferences from its size check to its end, for the one base
\* image imgPath.
CompareImages(p, name, imgPath) ==
    \E masked \in {_applyBounds(actualFiles[name])} :
    \E maskedExpected \in {_applyBounds(expectedFiles[Basename(imgPath)])} :
    \E pm \in {pixelmatch(maskedExpected.png.data, masked.png.data,
                          NewDiffBuffer(masked.png.width, masked.png.height),
                          running[p].opts.args)} :
    \E rec \in {RaceRecord(imgPath, masked.png.width * masked.png.height,
                           masked.cleared, pm.count, running[p].opts)} :
        LET res == [match |-> rec.match, difference |-> rec.difference,
                    diffImage |-> rec.diffImage,
                    diffPixels |-> rec.diffPixels,
                    totalPixels |-> rec.totalPixels,
                    relevantPixels |-> rec.relevantPixels,
                    variation |-> rec.variation, variations |-> <<rec>>]
        IN  /\ running' = [running EXCEPT ![p] =
                  [@ EXCEPT !.pc = "done",
                            !.out = res,
                            !.used =
                               [imageName |-> imageName,
                                actual |-> name,
                                expected |-> <<imgPath>>,
                                bounds |-> options.bounds,
                                tolerance |-> running[p].opts.tolerance]]]
            /\ result' = IF running[p].res = resultId THEN res ELSE result
            /\ diffFiles' =
                  IF ~rec.match /\ globalDir.diff
                  THEN WriteFile(diffFiles,
                                 _getFileName("diff", rec.variation), pm.out)
                  ELSE diffFiles

\* getVisualDifferences from _getExpectedImagePaths() to its end.  The
\* folder holds one base image for a name, so the loop has one pass.
Compare(p) ==
    /\ running[p].pc = "compare"
    /\ LET expectedImages == _getExpectedImagePaths
           name == _getFileName("actual", <<>>)
           fails(msg) ==
               /\ running' = [running EXCEPT ![p].pc = "thrown",
                                             ![p].err = msg]
               /\ UNCHANGED <<result, diffFiles>>
       IN  IF expectedImages = <<>>
           THEN fails("No expected base image found")
           ELSE IF ~FileExists(actualFiles, name)
           THEN fails("The actual-image does not exist")
           ELSE IF \/ expectedFiles[Basename(expectedImages[1])].width
                         # actualFiles[name].width
                   \/ expectedFiles[Basename(expectedImages[1])].height
                         # actualFiles[name].height
           THEN fails("Image sizes do not match")
           ELSE CompareImages(p, name, expectedImages[1])
    /\ UNCHANGED <<besideRace, actualFiles, imageName, options, resultId>>

RaceNext ==
    \/ \E p \in Callers : Begin(p)
    \/ \E p \in Callers : BoundingBox(p)
    \/ \E p \in Callers : AfterSetup(p)
    \/ \E p \in Callers : Screenshot(p)
    \/ \E p \in Callers : Compare(p)

RaceSpec == RaceInit /\ [][RaceNext]_vars

----------------------------------------------------------------------------
(* Notions the claims are stated in. *)

Terminated == pc \in {"returned", "thrown", "settled"}

\* The pixel (x, y) lies inside the bounding box.
InBox(x, y) ==
    /\ options.bounds.left <= x
    /\ x < options.bounds.left + options.bounds.width
    /\ options.bounds.top <= y
    /\ y < options.bounds.top + options.bounds.height

\* The pixel (x, y) lies inside an ignore region.
InIgnored(x, y) ==
    \E i \in 1..Len(options.ignore) :
        /\ options.ignore[i].left <= x
        /\ x < options.ignore[i].left + options.ignore[i].width
        /\ options.ignore[i].top <= y
        /\ y < options.ignore[i].top + options.ignore[i].height

\* The pixels of png excluded from the comparison: outside the active
\* bounding box or inside an ignore region.
Excluded(png) ==
    {PixelIndex(png, x, y) : <<x, y>> \in
        {q \in (0..(png.width - 1)) \X (0..(png.height - 1)) :
            \/ useBounds(options.bounds) /\ ~InBox(q[1], q[2])
            \/ InIgnored(q[1], q[2])}}

\* The rasters of the comparison as they are on disk.
ActualOnDisk == actualFiles[_getFileName("actual", <<>>)]
ExpectedOnDisk(n) == expectedFiles[Basename(loc.expectedImages[n])]

\* The pixels in which two rasters of equal size differ for pixelmatch.
Differing(a, b) == {k \in DOMAIN a.data : Blend(a.data[k]) # Blend(b.data[k])}

\* The bounding box and the ignore regions are made of numbers.
NumericMask ==
    \A b \in {options.bounds} \cup {options.ignore[i] : i \in 1..Len(options.ignore)} :
        NaN \notin {b.left, b.top, b.width, b.height}

----------------------------------------------------------------------------
(* C1  After both rasters are masked, every pixel outside the active       *)
(* bounding box or inside an ignore region is all-zero in the actual and   *)
(* in the base raster, is not marked in the diff buffer, and is not        *)
(* counted: diffPixels is the number of the remaining pixels in which the  *)
(* two images differ.  (For a mask made of numbers; a threshold of at     *)
(* most 0.1 tells black from white.)                                       *)
C1_ExcludedPixelsAreZeroAndNotCounted ==
    (pc = "loop" /\ loc.i > 0 /\ NumericMask /\ options.args.threshold <= 100) =>
        /\ \A k \in Excluded(loc.imgActual) :
              /\ loc.imgActual.data[k] = ZeroPixel
              /\ loc.imgExpected.data[k] = ZeroPixel
              /\ loc.imgDiff[k] # "diff"
        /\ loc.results[loc.i].diffPixels =
              Cardinality(Differing(ExpectedOnDisk(loc.i), ActualOnDisk)
                          \ Excluded(loc.imgActual))

\* A bounding box and an ignore region are both in force, an excluded pixel
\* differs between the two images on disk, and a compared pixel differs too.
C1_Witness ==
    /\ pc = "loop" /\ loc.i > 0
    /\ useBounds(options.bounds) /\ options.ignore # <<>>
    /\ Differing(ExpectedOnDisk(loc.i), ActualOnDisk)
          \cap Excluded(loc.imgActual) # {}
    /\ loc.results[loc.i].diffPixels > 0

(* C2  relevantPixels of every result record is totalPixels minus the      *)
(* number of excluded pixels, whatever the pixels hold.                    *)
C2_RelevantPixelsCountsEveryExcludedPixel ==
    pc = "returned" =>
        /\ result.relevantPixels =
              result.totalPixels - Cardinality(Excluded(loc.imgActual))
        /\ \A n \in 1..Len(result.variations) :
              result.variations[n].relevantPixels =
                 result.variations[n].totalPixels
                    - Cardinality(Excluded(loc.imgActual))

(* C3  difference is 100 * diffPixels / relevantPixels rounded to four     *)
(* decimal places (the nearest multiple of 0.0001, the larger of two       *)
(* equally near), and match holds exactly when it is at most the           *)
(* tolerance.                                                              *)
C3_DifferenceRoundedAndMatchWithinTolerance ==
    \A n \in 1..Len(loc.results) :
        LET rec == loc.results[n]
            off == 2 * (rec.difference.e4 * rec.relevantPixels
                        - 1000000 * rec.diffPixels)
        IN  rec.relevantPixels > 0 =>
               /\ ~rec.difference.nan
               /\ 0 - rec.relevantPixels < off
               /\ off <= rec.relevantPixels
               /\ rec.match <=> (rec.difference.e4 <= options.tolerance)

\* A difference equal to the tolerance, reached by rounding up, matches.
C3_Witness ==
    \E n \in 1..Len(loc.results) :
        /\ loc.results[n].difference.e4 = options.tolerance
        /\ loc.results[n].diffPixels > 0
        /\ loc.results[n].difference.e4 * loc.results[n].relevantPixels
              > 1000000 * loc.results[n].diffPixels
        /\ loc.results[n].match

\* The index, counted from 0, of the first record with the lowest diffPixels.
FirstLowest(records) ==
    SetMin({n \in 1..Len(records) :
              \A m \in 1..Len(records) :
                 records[n].diffPixels <= records[m].diffPixels}) - 1

(* C4  The returned result has the fields of the base image with the       *)
(* lowest diffPixels, the first of them in discovery order.                *)
C4_ResultIsFirstLowestCandidate ==
    returned =>
        LET best == result.variations[FirstLowest(result.variations) + 1]
        IN  /\ result.match = best.match
            /\ result.difference = best.difference
            /\ result.diffPixels = best.diffPixels
            /\ result.totalPixels = best.totalPixels
            /\ result.relevantPixels = best.relevantPixels
            /\ result.variation = best.variation
            /\ result.diffImage = best.diffImage

\* Mismatch counts 2, 2, 1, 1 select the third base image.
C4_Witness ==
    /\ returned
    /\ Len(result.variations) = 4
    /\ [n \in 1..4 |-> result.variations[n].diffPixels] = <<2, 2, 1, 1>>
    /\ result.variation = <<"b">>

(* C5  With diff output enabled, a diff image is written if and only if    *)
(* the best base image did not match.                                      *)
C5_DiffWrittenIffNoMatch ==
    (returned /\ globalDir.diff) =>
        (~result.match <=> diffWrites # <<>>)

\* The name the claim gives the diff image: prefix, base name, and
\* '.<label>.png' in place of '.png' when there is a variation label.
ClaimedDiffName ==
    globalDiffPrefix \o imageName
    \o (IF result.variation = <<>> THEN <<>> ELSE <<".">> \o result.variation)
    \o PNG_EXT

(* C6  When the call returns match = false with diff output enabled,       *)
(* diffImage names the diff image that was written: prefix, base name and  *)
(* the variation label if any.  (Stated for the calls that wrote one.)     *)
C6_DiffImageNamesWrittenFile ==
    (returned /\ globalDir.diff /\ ~result.match /\ diffWrites # <<>>) =>
        /\ diffWrites = <<result.diffImage>>
        /\ result.diffImage = ClaimedDiffName

\* No base image of the called name was in the expected folder at the call.
NoBaselineAtCall ==
    \A fn \in DOMAIN expectedAtCall :
        ~(\/ fn = imageName \o PNG_EXT
          \/ /\ Len(fn) > Len(imageName) + 5
             /\ SubSeq(fn, 1, Len(imageName) + 1) = imageName \o <<"~">>
             /\ EndsWithPng(fn))

SomeSizeDiffers ==
    \E n \in 1..Len(loc.expectedImages) :
        \/ ExpectedOnDisk(n).width # loc.imgActual.width
        \/ ExpectedOnDisk(n).height # loc.imgActual.height

(* C8  A base image of another size than the actual image aborts the       *)
(* comparison with 'Image sizes do not match' wherever it is in the list:  *)
(* no result is returned, this.result stays as reset, no diff image is     *)
(* written.                                                                *)
C8_SizeMismatchAborts ==
    SomeSizeDiffers =>
        /\ ~returned
        /\ result = FreshResult
        /\ diffWrites = <<>>
        /\ diffFiles = <<>>
        /\ Terminated => err = "Image sizes do not match"

\* The comparison is aborted at the third base image, after one that did
\* not match and one that matched.
C8_Witness ==
    /\ pc = "thrown"
    /\ err = "Image sizes do not match"
    /\ Len(loc.results) = 2
    /\ ~loc.results[1].match
    /\ loc.results[2].match
    /\ globalDir.diff

(* C9  checkVisualDifferences resolves only when the best base image is    *)
(* within tolerance, and then with match = true and an empty diffImage.    *)
C9_ResolvesOnlyOnMatch ==
    promise.state = "fulfilled" =>
        /\ returned
        /\ err = ""
        /\ LET best == result.variations[FirstLowest(result.variations) + 1]
           IN  WithinTolerance(best.difference, options.tolerance)
        /\ promise.res.match
        /\ promise.res.diffImage = <<>>

\* It resolves although another base image did not match.
C9_Witness ==
    /\ promise.state = "fulfilled"
    /\ \E n \in 1..Len(promise.res.variations) :
          /\ ~promise.res.variations[n].match
          /\ promise.res.variations[n].diffImage # <<>>

(* C10  checkVisualDifferences settles once: with the error that           *)
(* getVisualDifferences threw when it threw, with 'Images are different    *)
(* by ...' when the images differ, and getVisualDifferences itself returns *)
(* the result with match = false without throwing in that case.            *)
C10_DifferenceAndFailureAreDistinct ==
    /\ pc = "settled" =>
          /\ promise = Head(settleCalls)
          /\ err # "" =>
                /\ promise.state = "rejected"
                /\ promise.type = "error"
                /\ promise.msg = err
                /\ ~returned
          /\ (err = "" /\ ~result.match) =>
                /\ promise.state = "rejected"
                /\ promise.type = "different"
                /\ promise.msg = "Images are different by"
                /\ promise.res = result
                /\ returned
    /\ pc # "settled" => promise.state = "pending"
    /\ (returned /\ ~result.match) => err = ""
    /\ ~(returned /\ err # "")

\* getVisualDifferences threw, and the executor went on to call resolve
\* with the reset result after it had rejected.
C10_Witness ==
    /\ pc = "settled"
    /\ err = "Image sizes do not match"
    /\ Len(settleCalls) = 2
    /\ settleCalls[2].state = "fulfilled"
    /\ promise.state = "rejected"

\* _setupTest threw: this.options is what the call before left.
SetupFailed ==
    /\ pc = "thrown"
    /\ err \in {"Element couldn't be located",
                "TypeError: Cannot read properties of null"}

(* C11  Calls made one after the other are isolated: an option the running *)
(* call leaves out has its construction-time default, whatever the calls   *)
(* before were given; the construction-time defaults are the ones the      *)
(* constructor computed; and a result object handed to a caller still      *)
(* holds what it held when it was returned.                                *)
C11_CallsAreIsolated ==
    /\ (pc # "idle" /\ ~SetupFailed) =>
          /\ call.tolerance = Undefined => options.tolerance = globalTolerance
          /\ call.compareWith = Undefined => options.compareWith = <<>>
          /\ (call.element = Undefined /\ call.bounds = Undefined) =>
                options.bounds = NoBounds /\ options.element = <<>>
          /\ call.ignore = Undefined => options.ignore = <<>>
          /\ call.threshold = Undefined =>
                options.args.threshold = globalThreshold
          /\ options.args.diffMask = call.diffMask
          /\ call.captureActual = Undefined =>
                options.captureActual = globalCaptureActual
          /\ call.captureExpected = Undefined =>
                options.captureExpected = globalCaptureExpected
    /\ globalTolerance =
          ConfiguredNumber(config.tolerance, 0, FullTolerance, 10000)
    /\ globalThreshold =
          ConfiguredNumber(config.threshold, DefaultThreshold, 1000, 1000)
    /\ \A k \in 1..Len(handed) :
          /\ handed[k].now = handed[k].asReturned
          /\ \A j \in 1..Len(handed) : handed[j].id = handed[k].id => j = k

\* A second call without options has returned after a first call that
\* masked the image: its result is unmasked, the first result is kept.
C11_Witness ==
    /\ pc = "returned"
    /\ callsMade = 2
    /\ call = PlainCall
    /\ Len(handed) = 2
    /\ handed[1].now.relevantPixels < handed[1].now.totalPixels
    /\ handed[2].now.relevantPixels = handed[2].now.totalPixels
    /\ result = handed[2].now

\* _setupTest has set this.options for the running call.
OptionsSet == pc # "idle" /\ ~SetupFailed

(* C12  The tolerance of a call is a number from 0 to 100 percent, never   *)
(* negative and never NaN, whether the call gives it or the configuration  *)
(* does.                                                                   *)
C12_ToleranceWithinRange ==
    OptionsSet =>
        /\ options.tolerance # NaN
        /\ 0 <= options.tolerance
        /\ options.tolerance <= FullTolerance

\* The value the claim gives a field of bounds: the integer parsed from it,
\* 0 when it is missing or not numeric.
IntegerOrZero(v) == IF parseInt(v) = NaN THEN 0 ELSE parseInt(v)

(* C13  Bounds given without an element have each of left, top, width and  *)
(* height parsed as an integer on its own, a missing or non-numeric field  *)
(* being 0; with an element the element's box is used; with neither the    *)
(* box is all zero and nothing is masked for it.                           *)
C13_BoundsFieldsDefaultToZero ==
    OptionsSet =>
        /\ Truthy(call.element) =>
              options.bounds = _getBoundingBox(call.element.s)
        /\ (~Truthy(call.element) /\ call.bounds.t = "object") =>
              \A f \in {"left", "top", "width", "height"} :
                  options.bounds[f] = IntegerOrZero(Prop(call.bounds, f))
        /\ (~Truthy(call.element) /\ call.bounds.t # "object") =>
              /\ options.bounds = NoBounds
              /\ ~useBounds(options.bounds)

\* Whether the claim accepts item: it exposes the four fields.
ExposesAllFour(item) ==
    /\ item.t = "object"
    /\ \A f \in {"left", "top", "width", "height"} :
          Prop(item, f).t # "undefined"

(* C14  Of the entries of the ignore list exactly those that expose all    *)
(* four fields are kept, in their order; every other entry is dropped and  *)
(* no error is raised for it.                                              *)
C14_OtherIgnoreEntriesDropped ==
    (pc # "idle" /\ call.ignore.t = "array") =>
        /\ ~(pc = "thrown" /\ err = "TypeError: Cannot read properties of null")
        /\ LET kept == SelectSeq(call.ignore.items, ExposesAllFour)
           IN  options.ignore = [i \in 1..Len(kept) |-> ParsedBox(kept[i])]

\* The threshold the documentation gives as the default: 0.1.
DocumentedThreshold == 100

(* C15  A call without args.threshold on a helper configured without       *)
(* threshold compares with the documented default threshold of 0.1.        *)
C15_DefaultThresholdIsDocumented ==
    (OptionsSet /\ config.threshold = Undefined /\ call.threshold = Undefined)
        => options.args.threshold = DocumentedThreshold

(* C16  The extension is optional in an image name: a call that names the  *)
(* image n, n not ending in '.png', works on the image name that the call  *)
(* naming n.png works on, and so on the same actual file, the same base    *)
(* images and the same diff file name, all three being derived from the    *)
(* image name.                                                             *)
C16_PngExtensionOptional ==
    (pc # "idle" /\ ~EndsWithPng(call.image)) =>
        imageName = StripVariationAndExt(call.image \o PNG_EXT)

(* C17  The variation of a base image is the text between the '~' of its   *)
(* file name and the trailing '.png', empty for the file without '~',      *)
(* whatever folder the file lives in.                                      *)
C17_VariationFromFileName ==
    \A k \in 1..Len(loc.results) :
        loc.results[k].variation = VariationOf(Basename(loc.expectedImages[k]))

(* C18  A comparison in which no pixel is relevant is a match with a       *)
(* difference of 0, not NaN.                                               *)
C18_NoRelevantPixelsMatches ==
    (returned /\ result.relevantPixels = 0) =>
        /\ result.match
        /\ result.difference = [nan |-> FALSE, e4 |-> 0]

\* _toBool as the claim gives it: validTerms is consulted first.
ValidTermsFirst(value, validTerms) ==
    IF \E n \in 1..Len(validTerms) : validTerms[n] = value THEN value
    ELSE IF value.t = "boolean" THEN value
    ELSE IF value.t = "string"
    THEN Bool(toLowerCase(value.s) \in TrueTerms)
    ELSE Bool(Truthy(value))

(* C19  _toBool returns the value itself when it is one of validTerms, so  *)
(* 'missing' stays 'missing'; otherwise it returns true exactly for true,  *)
(* for truthy values that are no strings and for the strings 1, on, y,     *)
(* yes, true, always in any case.  Stated for the capture flags, which the *)
(* constructor and _setupTest pass through it with ['missing'].            *)
C19_ValidTermsReturnedAsGiven ==
    /\ config.captureActual # Undefined =>
          globalCaptureActual =
              ValidTermsFirst(config.captureActual, <<Str(MISSING)>>)
    /\ config.captureExpected # Undefined =>
          globalCaptureExpected =
              ValidTermsFirst(config.captureExpected, <<Str(MISSING)>>)
    /\ (OptionsSet /\ call.captureActual # Undefined) =>
          options.captureActual =
              ValidTermsFirst(call.captureActual, <<Str(MISSING)>>)
    /\ (OptionsSet /\ call.captureExpected # Undefined) =>
          options.captureExpected =
              ValidTermsFirst(call.captureExpected, <<Str(MISSING)>>)

(* C20  _deleteFile raises its error only for a file that exists and       *)
(* cannot be removed, and nothing for a file that does not exist; so       *)
(* _takeScreenshot does not fail on deleting an output image that does not *)
(* exist yet.                                                              *)
C20_DeleteRaisesOnlyForExistingFile ==
    /\ deleted.threw => deleted.existed
    /\ (pc = "thrown" /\ err = "Could not delete target file") =>
          deleted.existed

----------------------------------------------------------------------------
(* Notions the claims about the masking are stated in. *)

\* v clamped to 0..top.
Clamped(v, top) == Max2(0, Min2(top, v))

\* The pixels of raster inside the clamped rectangle r = <<x0, y0, x1, y1>>
\* with its corners in order.
RectPixels(raster, r) ==
    LET xa == Clamped(r[1], raster.width)
        xb == Clamped(r[3], raster.width)
        ya == Clamped(r[2], raster.height)
        yb == Clamped(r[4], raster.height)
    IN  {k \in DOMAIN raster.data :
            /\ Min2(xa, xb) <= (k - 1) % raster.width
            /\ (k - 1) % raster.width < Max2(xa, xb)
            /\ Min2(ya, yb) <= (k - 1) \div raster.width
            /\ (k - 1) \div raster.width < Max2(ya, yb)}

\* The raster the n-th _clearRect call left.
AfterCall(n) ==
    IF n = Len(maskCalls) THEN maskedPng ELSE maskCalls[n + 1].before

(* C21  _clearRect sets every channel of every pixel inside the clamped    *)
(* rectangle with its corners in order to 0 and returns the number of      *)
(* those pixels whose alpha was above 0 before; for a rectangle without    *)
(* width or height it returns 0 and changes nothing.                       *)
C21_ClearRectZeroesAndCounts ==
    \A n \in 1..Len(maskCalls) :
        LET c == maskCalls[n]
            in == RectPixels(c.before, c.rect)
        IN  /\ \A k \in in : AfterCall(n).data[k] = ZeroPixel
            /\ c.count = Cardinality({k \in in : c.before.data[k].a > 0})
            /\ in = {} => c.count = 0 /\ AfterCall(n) = c.before

\* A call cleared a rectangle that held a coloured transparent pixel and an
\* opaque one.
C21_Witness ==
    \E n \in 1..Len(maskCalls) :
        LET c == maskCalls[n]
            in == RectPixels(c.before, c.rect)
        IN  /\ \E k \in in : c.before.data[k] = [c |-> 1, a |-> 0]
            /\ c.count > 0
            /\ c.count < Cardinality(in)

(* C22  For any integer arguments, negative, out of range or reversed,     *)
(* _clearRect leaves every pixel outside the clamped rectangle as it was   *)
(* and the raster at its size, and the two corners given in the other      *)
(* order produce the same raster and the same count.                       *)
C22_ClearRectStaysInsideEitherOrder ==
    \A n \in 1..Len(maskCalls) :
        LET c == maskCalls[n]
            in == RectPixels(c.before, c.rect)
            r == c.rect
        IN  /\ DOMAIN AfterCall(n).data = DOMAIN c.before.data
            /\ AfterCall(n).width = c.before.width
            /\ AfterCall(n).height = c.before.height
            /\ \A k \in DOMAIN c.before.data \ in :
                  AfterCall(n).data[k] = c.before.data[k]
            /\ _clearRect(c.before, r[3], r[4], r[1], r[2]) =
                  [png |-> AfterCall(n), count |-> c.count]

\* A call with reversed corners, one of them outside the raster, cleared
\* opaque pixels and left others.
C22_Witness ==
    \E n \in 1..Len(maskCalls) :
        LET c == maskCalls[n]
        IN  /\ c.rect[3] < c.rect[1]
            /\ c.rect[4] < c.rect[2]
            /\ c.rect[1] > c.before.width
            /\ c.rect[4] < 0
            /\ c.count > 0
            /\ c.count < Cardinality(DOMAIN c.before.data)

\* The raster the masking started from.
InitialPng == IF maskCalls = <<>> THEN maskedPng ELSE maskCalls[1].before

\* The sum of the counts the first n _clearRect calls returned.
RECURSIVE SumCounts(_)
SumCounts(n) == IF n = 0 THEN 0 ELSE SumCounts(n - 1) + maskCalls[n].count

(* C23  Over any sequence of _clearRect calls on one raster, overlapping   *)
(* or not, the counts returned add up to the number of distinct pixels     *)
(* that were opaque at first and lie in one of the rectangles; clearing    *)
(* the same rectangle once more returns 0 and leaves the raster as it is;  *)
(* and the sum is what _applyBounds returns.                               *)
C23_CountsAddUpToUnion ==
    /\ maskCleared = SumCounts(Len(maskCalls))
    /\ maskCleared =
          Cardinality({k \in DOMAIN InitialPng.data :
                          /\ InitialPng.data[k].a > 0
                          /\ \E n \in 1..Len(maskCalls) :
                                k \in RectPixels(InitialPng, maskCalls[n].rect)})
    /\ \A n \in 2..Len(maskCalls) :
          maskCalls[n].rect = maskCalls[n - 1].rect =>
              maskCalls[n].count = 0 /\ AfterCall(n) = maskCalls[n].before
    /\ (maskPc = "mask" /\ maskRects = <<>>) =>
          _applyBounds(InitialPng) =
              [png |-> maskedPng, cleared |-> maskCleared]

\* _applyBounds cleared a strip, then an ignore region with opaque pixels,
\* then the same region again.
C23_Witness ==
    /\ maskPc = "mask"
    /\ maskRects = <<>>
    /\ Len(maskCalls) = 6
    /\ maskCalls[4].count > 0
    /\ maskCalls[5].count > 0
    /\ maskCalls[6].rect = maskCalls[5].rect

\* The strips _applyBounds cleared, and the pixel k of the raster.
Strips == [n \in 1..4 |-> maskCalls[n].rect]
StripsOver(k) == {n \in 1..4 : k \in RectPixels(InitialPng, Strips[n])}
PixelInBox(k) ==
    InBox((k - 1) % InitialPng.width, (k - 1) \div InitialPng.width)

\* The box lies inside the raster.
BoxInside ==
    /\ 0 <= options.bounds.left
    /\ 0 <= options.bounds.top
    /\ options.bounds.left + options.bounds.width <= InitialPng.width
    /\ options.bounds.top + options.bounds.height <= InitialPng.height

\* The four strips are the ones named, cover each pixel outside the box
\* once and none inside it, and on an opaque raster clear what the box
\* inside the raster leaves.
StripsTile ==
    LET b == options.bounds
        w == InitialPng.width
        h == InitialPng.height
    IN  /\ Strips = << <<0, 0, b.left, h>>,
                       <<b.left, 0, w, b.top>>,
                       <<b.left, b.top + b.height, w, h>>,
                       <<b.left + b.width, b.top, w, b.top + b.height>> >>
        /\ \A k \in DOMAIN InitialPng.data :
              IF PixelInBox(k) THEN StripsOver(k) = {}
              ELSE Cardinality(StripsOver(k)) = 1
        /\ (BoxInside /\ \A k \in DOMAIN InitialPng.data :
                            InitialPng.data[k].a > 0) =>
              SumCounts(4) + b.width * b.height = w * h

\* _applyBounds has cleared the four strips around the box.
StripsCleared ==
    maskPc = "mask" /\ useBounds(options.bounds) /\ Len(maskCalls) >= 4

(* C24  As stated: whenever bounds are active, the four strips cover every *)
(* pixel outside the box exactly once and no pixel inside it.              *)
C24_StripsTileForAnyBounds == StripsCleared => StripsTile

(* C24  For active bounds of a width and a height of at least 0, the four  *)
(* strips (0,0)-(left,H), (left,0)-(W,top), (left,top+height)-(W,H) and    *)
(* (left+width,top)-(W,top+height) cover every pixel outside the box       *)
(* exactly once and no pixel inside it, so for a box inside an opaque      *)
(* W x H raster cleared_by_bounds + box_area = W*H.                        *)
C24_StripsTileOutsideOfBox ==
    (StripsCleared /\ options.bounds.width >= 0 /\ options.bounds.height >= 0)
        => StripsTile

\* The strips around a box of one pixel inside an opaque raster are cleared.
C24_Witness ==
    /\ StripsCleared
    /\ BoxInside
    /\ options.bounds.width = 1
    /\ options.bounds.height = 1
    /\ options.bounds.left = 1
    /\ \A k \in DOMAIN InitialPng.data : InitialPng.data[k].a > 0
    /\ SumCounts(4) = PixelCount - 1

----------------------------------------------------------------------------
\* When the claim has _maybeCaptureImage(which, flag) take a screenshot.
ShouldCapture(which, flag) ==
    \/ flag = Bool(TRUE)
    \/ /\ flag = Str(MISSING)
       /\ ~FileExists(IF which = "expected" THEN expectedFiles
                      ELSE actualFiles, _getFileName(which, <<>>))
       /\ which = "expected" =>
             \A fn \in DOMAIN expectedFiles :
                 ~MatchesExpected(_getFileName("expected", <<>>), fn)

\* A step in which a screenshot was taken for the file fn of the folder:
\* it failed and left the folder, or it put a screenshot at fn and left the
\* other files.
Captured(which, before, after, fn) ==
    \/ /\ pc' = "thrown"
       /\ err' \in {"saveScreenshot failed", "Could not delete target file"}
       /\ after = before
    \/ /\ pc' # "thrown"
       /\ deleted'.which = which
       /\ FileExists(after, fn)
       /\ after[fn] \in Screenshots
       /\ \A f \in (DOMAIN before \cup DOMAIN after) \ {fn} :
             FileExists(before, f) /\ FileExists(after, f)
             /\ after[f] = before[f]

(* C25  _maybeCaptureImage takes a screenshot exactly when the flag is     *)
(* true, or is 'missing' while no image exists at the target path (for     *)
(* 'expected': and no variation of the base image exists either);          *)
(* otherwise it leaves the folder as it is; the actual image is captured   *)
(* before the expected one.                                                *)
C25_CapturesExactlyWhenFlagged ==
    [][/\ pc = "captureActual" =>
            /\ expectedFiles' = expectedFiles
            /\ IF ShouldCapture("actual", options.captureActual)
               THEN Captured("actual", actualFiles, actualFiles',
                             _getFileName("actual", <<>>))
               ELSE /\ actualFiles' = actualFiles
                    /\ deleted' = deleted
                    /\ pc' = "captureExpected"
       /\ pc = "captureExpected" =>
            /\ actualFiles' = actualFiles
            /\ IF ShouldCapture("expected", options.captureExpected)
               THEN Captured("expected", expectedFiles, expectedFiles',
                             _getFileName("expected", <<>>))
               ELSE /\ expectedFiles' = expectedFiles
                    /\ deleted' = deleted
                    /\ pc' = "load"
       /\ pc' = "captureExpected" => pc = "captureActual"
       /\ pc' = "load" => pc = "captureExpected"]_vars

\* Under 'missing' the expected image was captured because neither it nor a
\* variation existed, after the actual image had been left alone.
C25_Witness ==
    /\ pc = "load"
    /\ options.captureExpected = Str(MISSING)
    /\ options.captureActual = Str(MISSING)
    /\ deleted = [which |-> "expected", existed |-> FALSE, threw |-> FALSE]
    /\ FileExists(expectedFiles, _getFileName("expected", <<>>))
    /\ ~FileExists(expectedAtCall, _getFileName("expected", <<>>))

\* The result records there are: those of the loop, and the result with
\* its variations once it is set.
Records ==
    {loc.results[n] : n \in 1..Len(loc.results)}
    \cup {result.variations[n] : n \in 1..Len(result.variations)}
    \cup {handed[n].now : n \in 1..Len(handed)}
    \cup {result}

(* C26  In every result record with relevantPixels > 0, diffPixels <=      *)
(* relevantPixels <= totalPixels, and the difference is a number from 0 to *)
(* 100 percent.                                                            *)
C26_RecordsWithinRange ==
    \A r \in Records :
        r.relevantPixels > 0 =>
            /\ 0 <= r.diffPixels
            /\ r.diffPixels <= r.relevantPixels
            /\ r.relevantPixels <= r.totalPixels
            /\ ~r.difference.nan
            /\ 0 <= r.difference.e4
            /\ r.difference.e4 <= FullTolerance

\* A masked comparison returned a record in which every relevant pixel
\* differs and another in which some do.
C26_Witness ==
    /\ returned
    /\ result.relevantPixels < result.totalPixels
    /\ \E r \in Records :
          /\ r.relevantPixels > 0
          /\ r.diffPixels = r.relevantPixels
          /\ r.difference.e4 = FullTolerance
    /\ \E r \in Records :
          /\ 0 < r.diffPixels
          /\ r.diffPixels < r.relevantPixels

(* C27  The returned result has match = true if and only if at least one   *)
(* record of result.variations has match = true.                           *)
C27_MatchIffSomeVariationMatches ==
    returned =>
        (result.match <=>
            \E n \in 1..Len(result.variations) : result.variations[n].match)

\* A comparison returned a match found in a later base image, the first
\* one being out of tolerance.
C27_Witness ==
    /\ returned
    /\ result.match
    /\ Len(result.variations) >= 2
    /\ ~result.variations[1].match
    /\ result.diffPixels > 0

\* The diff image of the best base image on its own: pixelmatch of its
\* masked raster and the masked actual raster into a new buffer.
DiffOfBestAlone ==
    pixelmatch(_applyBounds(ExpectedOnDisk(loc.bestIndex + 1)).png.data,
               loc.imgActual.data,
               NewDiffBuffer(loc.imgActual.width, loc.imgActual.height),
               options.args).out

(* C28  The diff image written for the best base image depends on its      *)
(* masked raster, the masked actual raster and the args only: the base     *)
(* images compared before or after it, which are drawn into the same       *)
(* imgDiff buffer, leave no trace in it, for every args, diffMask = true   *)
(* included.                                                               *)
C28_DiffImageOfBestAlone ==
    (returned /\ diffWrites # <<>>) =>
        diffFiles[diffWrites[Len(diffWrites)]] = DiffOfBestAlone

----------------------------------------------------------------------------
\* What a call is to work on, from its own arguments.
OwnImageName(p) == StripVariationAndExt(running[p].args.image)
OwnActual(p) == OwnImageName(p) \o PNG_EXT
OwnExpected(p) == << dirnameExpected \o <<"/">> \o OwnActual(p) >>

(* C29  A comparison that was suspended at an await while a second call    *)
(* started on the same helper still works on its own image name and its    *)
(* own options: it loads its own actual image, lists the base images of    *)
(* its own name, masks with its own bounds and judges by its own           *)
(* tolerance.                                                              *)
C29_OverlappingCallsKeepTheirOwn ==
    \A p \in DOMAIN running :
        (running[p].pc = "done" /\ running[p].args.kind # "shot") =>
            /\ running[p].used.imageName = OwnImageName(p)
            /\ running[p].used.actual = OwnActual(p)
            /\ running[p].used.expected = OwnExpected(p)
            /\ running[p].used.bounds =
                  SanitizedOptions(running[p].args).bounds
            /\ running[p].used.tolerance =
                  SanitizedOptions(running[p].args).tolerance

----------------------------------------------------------------------------
\* The call under way is a comparison that captures nothing.
ComparesWithoutCapture ==
    /\ kind # "shot"
    /\ options.captureActual = Bool(FALSE)
    /\ options.captureExpected = Bool(FALSE)

\* The folder after differs from the folder before in the file fn at most.
SameApartFrom(before, after, fn) ==
    /\ (DOMAIN after) \ {fn} = (DOMAIN before) \ {fn}
    /\ \A x \in (DOMAIN after) \ {fn} : after[x] = before[x]

(* C30  A step of a comparison with captureActual = false and              *)
(* captureExpected = false leaves every file of the expected and of the    *)
(* actual folder as it is; if it writes a file, that file is the diff      *)
(* image of the best base image, and it is the only write of the call.     *)
C30_ComparisonWritesDiffImageOnly ==
    [][ComparesWithoutCapture' =>
          /\ expectedFiles' = expectedFiles
          /\ actualFiles' = actualFiles
          /\ diffFiles' # diffFiles =>
                /\ diffWrites = <<>>
                /\ diffWrites' = <<_getFileName("diff", result'.variation)>>
                /\ SameApartFrom(diffFiles, diffFiles', diffWrites'[1])
          /\ Len(diffWrites') <= 1]_vars

\* A comparison without captures has returned a mismatch and has written
\* its one diff image.
C30_Witness ==
    /\ pc = "returned"
    /\ kind = "get"
    /\ ComparesWithoutCapture
    /\ ~result.match
    /\ Len(diffWrites) = 1
    /\ Len(result.variations) > 1
    /\ expectedFiles = expectedAtCall

====
